---- MODULE Spec2Model ----
(***************************************************************************)
(* Model of the AutoFig WebSocket broker (src/src/socket.ts): channel      *)
(* membership, agent registry, node/doc lock arbitration, the TTL sweep    *)
(* and the connection close handler.  One action per handler; a frame      *)
(* handler is atomic, as the runtime runs each callback to completion.     *)
(***************************************************************************)
EXTENDS Integers, Sequences, FiniteSets, TLC

(* ---------------------------------------------------------------- values *)

\* JavaScript `undefined` (an absent frame field, an untagged connection).
Undefined == "undefined"

\* DEFAULT_LOCK_TTL_MS, socket.ts line 28.
DEFAULT_LOCK_TTL_MS == 60000

\* Period of the lock expiry sweep, setInterval(..., 5000), socket.ts line 509.
SWEEP_INTERVAL_MS == 5000

\* The administrative channel of agent:registered / agent:disconnected.
FIGMA_BRIDGE == "figma-bridge"

\* Bound: the clock stops at MaxTime milliseconds.
MaxTime == 10000

\* The short per-grant TTL (ms) that lock requests may carry.
ShortTtl == 100

\* Universes of the model.
Conns == {"c1", "c2", "c3"}
AgentIds == {"a1", "a2", "a3"}
NodeIds == {"n1"}

\* docLock = null.  A LockEntry is [agentId, acquiredAt, ttl].
NoLock == [agentId |-> Undefined, acquiredAt |-> 0, ttl |-> 0]

\* An empty Map.
EmptyMap == [k \in {} |-> Undefined]

\* Map.set / Map.delete on a function whose domain is the key set.
MapSet(m, k, v) == [x \in (DOMAIN m) \cup {k} |-> IF x = k THEN v ELSE m[x]]
MapDelete(m, ks) == [x \in (DOMAIN m) \ ks |-> m[x]]

\* A frame's optional ttl is <<>> (absent) or <<n>>.
TtlOf(data) == IF data.ttl = << >> THEN 0 ELSE data.ttl[1]

VARIABLES
    readyState,   \* connection -> "new" | "open" | "closing" | "closed"
    wsAgentId,    \* ws.data.agentId of each connection
    channels,     \* Map channel name -> set of member connections
    agents,       \* Map agentId -> AgentInfo
    nodeLocks,    \* Map nodeId -> LockEntry
    docLock,      \* LockEntry or NoLock
    now,          \* Date.now()
    nextSweep,    \* time at which the sweep timer fires next
    sent,         \* frames sent by the last handler, in order: [to, msg]
    last,         \* the event the last handler ran for
    grantedOver,  \* history: lock key -> connection its grant was sent to
    heldSince,    \* history: lock key -> time its holder first got it
    docDenied,    \* history: node requests denied as doc-locked
    registeredBy, \* history: connection -> agentIds it has registered
    inbox,        \* history: commands the mock plugin has yet to answer
    got,          \* history: connection -> ids of the responses it received
    sentLegacy    \* history: ids of the commands sent without replyTo

vars == <<readyState, wsAgentId, channels, agents, nodeLocks, docLock,
          now, nextSweep, sent, last,
          grantedOver, heldSince, docDenied, registeredBy, inbox, got,
          sentLegacy>>

(* ------------------------------------------------------------- helpers *)

\* A set as a sequence, in a fixed order (Set.forEach iteration).
RECURSIVE SetToSeq(_)
SetToSeq(S) ==
    IF S = {} THEN << >>
    ELSE LET x == CHOOSE y \in S : TRUE IN <<x>> \o SetToSeq(S \ {x})

\* client.readyState === WebSocket.OPEN
IsOpen(c) == readyState[c] = "open"

\* forEach member: if (readyState === OPEN) client.send(msg)
SendEach(members, msg) ==
    LET open == {c \in members : IsOpen(c)}
        order == SetToSeq(open)
    IN [i \in 1..Len(order) |-> [to |-> order[i], msg |-> msg]]

\* Members of a channel; no members when the channel does not exist.
Members(ch) == IF ch \in DOMAIN channels THEN channels[ch] ELSE {}

\* releaseAgentLocks, socket.ts lines 30-41: the node-lock map afterwards.
ReleaseNodes(locks, ids) ==
    MapDelete(locks, {n \in DOMAIN locks : locks[n].agentId \in ids})

\* Mutant: releaseAgentLocks frees the doc lock whoever holds it.
ReleaseDoc_Always(lock, ids) == NoLock

\* releaseAgentLocks, socket.ts lines 37-40: the doc lock afterwards.
ReleaseDoc(lock, ids) ==
    IF lock # NoLock /\ lock.agentId \in ids THEN NoLock ELSE lock

\* Mutant: a refresh that carries no ttl keeps the ttl the entry has.
EffectiveTtl_Sticky(data) ==
    IF TtlOf(data) # 0 THEN TtlOf(data)
    ELSE IF data.lockType = "doc" /\ docLock.agentId = data.agentId
    THEN docLock.ttl
    ELSE IF data.lockType = "node" /\ data.nodeId \in DOMAIN nodeLocks
    THEN nodeLocks[data.nodeId].ttl
    ELSE DEFAULT_LOCK_TTL_MS

\* ttl || DEFAULT_LOCK_TTL_MS, socket.ts line 296.
EffectiveTtl(data) ==
    IF TtlOf(data) = 0 THEN DEFAULT_LOCK_TTL_MS ELSE TtlOf(data)

\* The instants at which the model lets events happen: each sweep instant
\* and the instant one short TTL before it.
NextInstant(t) ==
    IF t % SWEEP_INTERVAL_MS = 0
    THEN t + (SWEEP_INTERVAL_MS - ShortTtl)
    ELSE t + ShortTtl

\* The key of the doc lock in the history variable grantedOver.
DOC == "doc"

\* The lock keys held in the given lock state.
HeldKeys(locks, doc) == (DOMAIN locks) \cup (IF doc = NoLock THEN {} ELSE {DOC})

\* grantedOver restricted to the keys still held.
Forget(locks, doc) ==
    [k \in (DOMAIN grantedOver) \cap HeldKeys(locks, doc) |-> grantedOver[k]]

(* --------------------------------------------------------------- Init *)

Init ==
    /\ readyState = [c \in Conns |-> "new"]
    /\ wsAgentId = [c \in Conns |-> Undefined]
    /\ channels = EmptyMap
    /\ agents = EmptyMap
    /\ nodeLocks = EmptyMap
    /\ docLock = NoLock
    /\ now = 0
    /\ nextSweep = SWEEP_INTERVAL_MS
    /\ sent = << >>
    /\ last = [op |-> "init"]
    /\ grantedOver = EmptyMap
    /\ heldSince = EmptyMap
    /\ docDenied = {}
    /\ registeredBy = [c \in Conns |-> {}]
    /\ inbox = {}
    /\ got = [c \in Conns |-> {}]
    /\ sentLegacy = {}

(* ------------------------------------------------- connection lifecycle *)

\* websocket.open -> handleConnection, socket.ts lines 43-51, 182-188.
Open(ws) ==
    /\ readyState[ws] = "new"
    /\ readyState' = [readyState EXCEPT ![ws] = "open"]
    /\ sent' = << [to |-> ws,
                   msg |-> [type |-> "system",
                            message |-> "Please join a channel to start chatting"]] >>
    /\ last' = [op |-> "open", ws |-> ws]
    /\ UNCHANGED <<wsAgentId, channels, agents, nodeLocks, docLock, now, nextSweep>>

\* The transport drops: readyState is no longer OPEN, websocket.close has
\* not run yet.
Drop(ws) ==
    /\ readyState[ws] = "open"
    /\ readyState' = [readyState EXCEPT ![ws] = "closing"]
    /\ sent' = << >>
    /\ last' = [op |-> "drop", ws |-> ws]
    /\ UNCHANGED <<wsAgentId, channels, agents, nodeLocks, docLock, now, nextSweep>>

\* Mutant: a close leaves the registry as it is.
OwnedAgents_None(ws) == {}

\* Mutant: the registry entry to delete is looked up by the connection's tag.
OwnedAgents_ByTag(ws) == {a \in DOMAIN agents : a = wsAgentId[ws]}

\* The agentIds whose registry entry is owned by ws (info.ws === ws).
OwnedAgents(ws) == {a \in DOMAIN agents : agents[a].ws = ws}

\* Mutant: only agents in the registry have their locks released on close
\* (the tag of an unregistered connection is not looked at).
ClosedAgentIds_RegistryOnly(ws) == OwnedAgents(ws)

\* Mutant: the tag path runs after the registry path as well.
ClosedAgentIds_BothPaths(ws) ==
    OwnedAgents(ws) \cup
       (IF wsAgentId[ws] # Undefined THEN {wsAgentId[ws]} ELSE {})

\* The agentIds whose locks websocket.close releases, socket.ts lines 463-491.
ClosedAgentIds(ws) ==
    IF OwnedAgents(ws) # {} THEN OwnedAgents(ws)
    ELSE IF wsAgentId[ws] # Undefined THEN {wsAgentId[ws]}
    ELSE {}

\* The path of websocket.close that calls releaseAgentLocks, socket.ts lines
\* 463-491: the registry loop, the tag of an unregistered connection, or
\* neither.
ClosePath(ws) ==
    IF OwnedAgents(ws) # {} THEN "registry"
    ELSE IF wsAgentId[ws] # Undefined THEN "tag"
    ELSE "none"

\* websocket.close, socket.ts lines 454-492.
Close(ws) ==
    /\ readyState[ws] \in {"open", "closing"}
    /\ readyState' = [readyState EXCEPT ![ws] = "closed"]
    /\ channels' = [ch \in DOMAIN channels |-> channels[ch] \ {ws}]
    /\ agents' = MapDelete(agents, OwnedAgents(ws))
    /\ nodeLocks' = ReleaseNodes(nodeLocks, ClosedAgentIds(ws))
    /\ docLock' = ReleaseDoc(docLock, ClosedAgentIds(ws))
    /\ LET owned == SetToSeq(OwnedAgents(ws))
           bridge == Members(FIGMA_BRIDGE) \ {ws}
           Notice(i) == SendEach(bridge, [type |-> "agent:disconnected",
                                          agentId |-> owned[i]])
           RECURSIVE All(_)
           All(i) == IF i > Len(owned) THEN << >> ELSE Notice(i) \o All(i + 1)
       IN sent' = All(1)
    /\ last' = [op |-> "close", ws |-> ws,
                freed |-> HeldKeys(nodeLocks, docLock)
                          \ HeldKeys(nodeLocks', docLock'),
                gone |-> (DOMAIN agents) \ (DOMAIN agents')]
    /\ UNCHANGED <<wsAgentId, now, nextSweep>>

(* ------------------------------------------------------------- frames *)

\* Mutant: a registration does not overwrite an existing entry.
AgentRegister_FirstWins(ws, data) ==
    /\ readyState[ws] = "open"
    /\ data.type = "agent:register"
    /\ last' = [op |-> "frame", ws |-> ws, data |-> data]
    /\ IF data.agentId = Undefined \/ data.channel = Undefined
       THEN /\ sent' = << [to |-> ws,
                           msg |-> [type |-> "error",
                                    message |-> "agentId and channel are required"]] >>
            /\ UNCHANGED <<wsAgentId, agents>>
       ELSE LET info == [agentId |-> data.agentId,
                         channel |-> data.channel,
                         mode |-> IF data.mode = Undefined THEN "read-write"
                                  ELSE data.mode,
                         connectedAt |-> now,
                         ws |-> ws]
            IN /\ wsAgentId' = [wsAgentId EXCEPT ![ws] = data.agentId]
               /\ agents' = IF data.agentId \in DOMAIN agents THEN agents
                             ELSE MapSet(agents, data.agentId, info)
               /\ sent' = << [to |-> ws,
                              msg |-> [type |-> "agent:registered",
                                       agentId |-> data.agentId,
                                       channel |-> data.channel]] >>
                          \o SendEach(Members(FIGMA_BRIDGE),
                                      [type |-> "agent:registered",
                                       agentId |-> data.agentId,
                                       channel |-> data.channel,
                                       mode |-> info.mode])
    /\ UNCHANGED <<readyState, channels, nodeLocks, docLock, now, nextSweep>>

\* agent:register, socket.ts lines 251-282.
AgentRegister(ws, data) ==
    /\ readyState[ws] = "open"
    /\ data.type = "agent:register"
    /\ last' = [op |-> "frame", ws |-> ws, data |-> data]
    /\ IF data.agentId = Undefined \/ data.channel = Undefined
       THEN /\ sent' = << [to |-> ws,
                           msg |-> [type |-> "error",
                                    message |-> "agentId and channel are required"]] >>
            /\ UNCHANGED <<wsAgentId, agents>>
       ELSE LET info == [agentId |-> data.agentId,
                         channel |-> data.channel,
                         mode |-> IF data.mode = Undefined THEN "read-write"
                                  ELSE data.mode,
                         connectedAt |-> now,
                         ws |-> ws]
            IN /\ wsAgentId' = [wsAgentId EXCEPT ![ws] = data.agentId]
               /\ agents' = MapSet(agents, data.agentId, info)
               /\ sent' = << [to |-> ws,
                              msg |-> [type |-> "agent:registered",
                                       agentId |-> data.agentId,
                                       channel |-> data.channel]] >>
                          \o SendEach(Members(FIGMA_BRIDGE),
                                      [type |-> "agent:registered",
                                       agentId |-> data.agentId,
                                       channel |-> data.channel,
                                       mode |-> info.mode])
    /\ UNCHANGED <<readyState, channels, nodeLocks, docLock, now, nextSweep>>

\* Mutant: the doc lock pre-empts only requests for nodes nobody holds.
DocBlocks_NewNodesOnly(data) ==
    /\ docLock # NoLock
    /\ docLock.agentId # data.agentId
    /\ data.nodeId \notin DOMAIN nodeLocks

\* Mutant: a doc lock older than its TTL no longer pre-empts node requests.
DocBlocks_UnlessExpired(data) ==
    /\ docLock # NoLock
    /\ docLock.agentId # data.agentId
    /\ now - docLock.acquiredAt <= docLock.ttl

\* Mutant: an agent registered read-only is denied every node.
DocBlocks_ReadOnly(data) ==
    \/ docLock # NoLock /\ docLock.agentId # data.agentId
    \/ /\ data.agentId \in DOMAIN agents
       /\ agents[data.agentId].mode = "read-only"

\* docLock && docLock.agentId !== agentId, socket.ts line 317 (and 299).
DocBlocks(data) == docLock # NoLock /\ docLock.agentId # data.agentId

\* Mutant: the holder of the node is not looked at.
NodeBlocks_Never(data) == FALSE

\* Mutant: a held node is denied to its own holder as well.
NodeBlocks_HolderToo(data) == data.nodeId \in DOMAIN nodeLocks

\* Mutant: the holder of the doc lock is granted any node, held or not.
NodeBlocks_UnlessDocHolder(data) ==
    /\ data.nodeId \in DOMAIN nodeLocks
    /\ nodeLocks[data.nodeId].agentId # data.agentId
    /\ docLock.agentId # data.agentId

\* existing && existing.agentId !== agentId, socket.ts lines 324-325.
NodeBlocks(data) ==
    /\ data.nodeId \in DOMAIN nodeLocks
    /\ nodeLocks[data.nodeId].agentId # data.agentId

\* The reply of lock:acquire, socket.ts lines 286-338.
AcquireReply(data) ==
    IF data.agentId = Undefined
    THEN [type |-> "error", id |-> data.id, message |-> "agentId is required"]
    ELSE IF data.lockType = "doc"
    THEN IF docLock = NoLock \/ docLock.agentId = data.agentId
         THEN [type |-> "lock:acquired", id |-> data.id, lockType |-> "doc"]
         ELSE [type |-> "lock:denied", id |-> data.id, lockType |-> "doc",
               heldBy |-> docLock.agentId]
    ELSE IF data.lockType = "node"
    THEN IF data.nodeId = Undefined
         THEN [type |-> "error", id |-> data.id,
               message |-> "nodeId is required for node locks"]
         ELSE IF DocBlocks(data)
         THEN [type |-> "lock:denied", id |-> data.id, lockType |-> "node",
               nodeId |-> data.nodeId, heldBy |-> docLock.agentId,
               reason |-> "doc-locked"]
         ELSE IF NodeBlocks(data)
         THEN [type |-> "lock:denied", id |-> data.id, lockType |-> "node",
               nodeId |-> data.nodeId,
               heldBy |-> nodeLocks[data.nodeId].agentId]
         ELSE [type |-> "lock:acquired", id |-> data.id, lockType |-> "node",
               nodeId |-> data.nodeId]
    ELSE [type |-> "error", id |-> data.id,
          message |-> <<"Unknown lockType: ", data.lockType>>]

\* The holder of the key a lock frame names, Undefined when it is free.
HolderOf(data) ==
    IF data.lockType = "doc" THEN docLock.agentId
    ELSE IF data.nodeId \in DOMAIN nodeLocks THEN nodeLocks[data.nodeId].agentId
    ELSE Undefined

\* { agentId, acquiredAt: Date.now(), ttl: effectiveTtl }, socket.ts lines
\* 300 and 332.
GrantedEntry(data) ==
    [agentId |-> data.agentId, acquiredAt |-> now, ttl |-> EffectiveTtl(data)]

\* Mutant: a denied doc request overwrites the holder's entry.
DocAfterAcquire_Always(data) ==
    IF data.agentId # Undefined /\ data.lockType = "doc"
    THEN GrantedEntry(data) ELSE docLock

\* The doc lock after lock:acquire, socket.ts lines 299-301.
DocAfterAcquire(data) ==
    IF AcquireReply(data).type = "lock:acquired" /\ data.lockType = "doc"
    THEN GrantedEntry(data) ELSE docLock

\* Mutant: a granted doc lock revokes the node locks of the other agents.
NodesAfterAcquire_DocRevokes(data) ==
    IF AcquireReply(data).type = "lock:acquired"
    THEN IF data.lockType = "node"
         THEN MapSet(nodeLocks, data.nodeId, GrantedEntry(data))
         ELSE MapDelete(nodeLocks, {n \in DOMAIN nodeLocks :
                                       nodeLocks[n].agentId # data.agentId})
    ELSE nodeLocks

\* The node-lock table after lock:acquire, socket.ts line 332.
NodesAfterAcquire(data) ==
    IF AcquireReply(data).type = "lock:acquired" /\ data.lockType = "node"
    THEN MapSet(nodeLocks, data.nodeId, GrantedEntry(data)) ELSE nodeLocks

\* Mutant: the requester of a lock is the agentId its connection is tagged
\* with, whatever agentId the frame carries.
LockAcquire_ByConnection(ws, data) ==
    LET own == IF wsAgentId[ws] = Undefined \/ data.agentId = Undefined
               THEN data
               ELSE [data EXCEPT !.agentId = wsAgentId[ws]]
    IN
    /\ readyState[ws] = "open"
    /\ data.type = "lock:acquire"
    /\ last' = [op |-> "frame", ws |-> ws, data |-> data,
                held |-> HolderOf(data),
                retry |-> \E d \in docDenied : /\ d.agentId = data.agentId
                                               /\ d.nodeId = data.nodeId
                                               /\ d.released,
                over |-> LET k == IF data.lockType = "doc" THEN DOC
                                  ELSE data.nodeId
                         IN IF k \in DOMAIN grantedOver THEN grantedOver[k]
                            ELSE Undefined,
                hadTtl |-> IF data.lockType = "doc" THEN docLock.ttl
                           ELSE IF data.nodeId \in DOMAIN nodeLocks
                           THEN nodeLocks[data.nodeId].ttl
                           ELSE 0]
    /\ sent' = << [to |-> ws, msg |-> AcquireReply(own)] >>
    /\ wsAgentId' =
          IF data.agentId # Undefined /\ wsAgentId[ws] = Undefined
          THEN [wsAgentId EXCEPT ![ws] = data.agentId]
          ELSE wsAgentId
    /\ docLock' = DocAfterAcquire(own)
    /\ nodeLocks' = NodesAfterAcquire(own)
    /\ UNCHANGED <<readyState, channels, agents, now, nextSweep>>

\* lock:acquire, socket.ts lines 284-339.
LockAcquire(ws, data) ==
    /\ readyState[ws] = "open"
    /\ data.type = "lock:acquire"
    /\ last' = [op |-> "frame", ws |-> ws, data |-> data,
                held |-> HolderOf(data),
                retry |-> \E d \in docDenied : /\ d.agentId = data.agentId
                                               /\ d.nodeId = data.nodeId
                                               /\ d.released,
                over |-> LET k == IF data.lockType = "doc" THEN DOC
                                  ELSE data.nodeId
                         IN IF k \in DOMAIN grantedOver THEN grantedOver[k]
                            ELSE Undefined,
                hadTtl |-> IF data.lockType = "doc" THEN docLock.ttl
                           ELSE IF data.nodeId \in DOMAIN nodeLocks
                           THEN nodeLocks[data.nodeId].ttl
                           ELSE 0]
    /\ sent' = << [to |-> ws, msg |-> AcquireReply(data)] >>
    /\ wsAgentId' =
          IF data.agentId # Undefined /\ wsAgentId[ws] = Undefined
          THEN [wsAgentId EXCEPT ![ws] = data.agentId]
          ELSE wsAgentId
    /\ docLock' = DocAfterAcquire(data)
    /\ nodeLocks' = NodesAfterAcquire(data)
    /\ UNCHANGED <<readyState, channels, agents, now, nextSweep>>

\* Mutant: the holder's release leaves the doc lock in place.
DocAfterRelease_Kept(data) == docLock

\* Mutant: the holder's release hands the doc lock to an agent that waits
\* for it.
DocAfterRelease_HandOver(data) ==
    IF docLock.agentId = data.agentId /\ docLock # NoLock
    THEN [agentId |-> CHOOSE a \in AgentIds : a # data.agentId,
          acquiredAt |-> now, ttl |-> DEFAULT_LOCK_TTL_MS]
    ELSE docLock

\* Mutant: any doc release frees the doc lock, whoever sends it.
DocAfterRelease_Anyone(data) == NoLock

\* if (docLock?.agentId === agentId) docLock = null, socket.ts lines 345-347.
DocAfterRelease(data) ==
    IF docLock.agentId = data.agentId THEN NoLock ELSE docLock

\* Mutant: a release frees a lock only over a connection tagged with the
\* frame's agentId.
LockRelease_TaggedOnly(ws, data) ==
    LET own == IF wsAgentId[ws] = data.agentId THEN data
               ELSE [data EXCEPT !.agentId = Undefined]
    IN
    /\ readyState[ws] = "open"
    /\ data.type = "lock:release"
    /\ last' = [op |-> "frame", ws |-> ws, data |-> data,
                held |-> HolderOf(data),
                over |-> LET k == IF data.lockType = "doc" THEN DOC
                                  ELSE data.nodeId
                         IN IF k \in DOMAIN grantedOver THEN grantedOver[k]
                            ELSE Undefined]
    /\ IF data.lockType = "doc"
       THEN /\ docLock' = DocAfterRelease(own)
            /\ sent' = << [to |-> ws,
                           msg |-> [type |-> "lock:released", id |-> data.id,
                                    lockType |-> "doc"]] >>
            /\ UNCHANGED nodeLocks
       ELSE IF data.lockType = "node"
       THEN /\ nodeLocks' =
                 IF data.nodeId \in DOMAIN nodeLocks
                    /\ nodeLocks[data.nodeId].agentId = own.agentId
                 THEN MapDelete(nodeLocks, {data.nodeId})
                 ELSE nodeLocks
            /\ sent' = << [to |-> ws,
                           msg |-> [type |-> "lock:released", id |-> data.id,
                                    lockType |-> "node",
                                    nodeId |-> data.nodeId]] >>
            /\ UNCHANGED docLock
       ELSE /\ sent' = << [to |-> ws,
                           msg |-> [type |-> "error", id |-> data.id,
                                    message |-> <<"Unknown lockType: ",
                                                  data.lockType>>]] >>
            /\ UNCHANGED <<nodeLocks, docLock>>
    /\ UNCHANGED <<readyState, wsAgentId, channels, agents, now, nextSweep>>

\* lock:release, socket.ts lines 341-362.
LockRelease(ws, data) ==
    /\ readyState[ws] = "open"
    /\ data.type = "lock:release"
    /\ last' = [op |-> "frame", ws |-> ws, data |-> data,
                held |-> HolderOf(data),
                over |-> LET k == IF data.lockType = "doc" THEN DOC
                                  ELSE data.nodeId
                         IN IF k \in DOMAIN grantedOver THEN grantedOver[k]
                            ELSE Undefined]
    /\ IF data.lockType = "doc"
       THEN /\ docLock' = DocAfterRelease(data)
            /\ sent' = << [to |-> ws,
                           msg |-> [type |-> "lock:released", id |-> data.id,
                                    lockType |-> "doc"]] >>
            /\ UNCHANGED nodeLocks
       ELSE IF data.lockType = "node"
       THEN /\ nodeLocks' =
                 IF data.nodeId \in DOMAIN nodeLocks
                    /\ nodeLocks[data.nodeId].agentId = data.agentId
                 THEN MapDelete(nodeLocks, {data.nodeId})
                 ELSE nodeLocks
            /\ sent' = << [to |-> ws,
                           msg |-> [type |-> "lock:released", id |-> data.id,
                                    lockType |-> "node",
                                    nodeId |-> data.nodeId]] >>
            /\ UNCHANGED docLock
       ELSE /\ sent' = << [to |-> ws,
                           msg |-> [type |-> "error", id |-> data.id,
                                    message |-> <<"Unknown lockType: ",
                                                  data.lockType>>]] >>
            /\ UNCHANGED <<nodeLocks, docLock>>
    /\ UNCHANGED <<readyState, wsAgentId, channels, agents, now, nextSweep>>

(* ------------------------------------------------------ time and sweep *)

\* The entry held under a lock key.
EntryOf(locks, doc, k) == IF k = DOC THEN doc ELSE locks[k]

\* Mutant: the sweep finds no lock expired.
Expired_Never(lock, t) == FALSE

\* Mutant: the sweep compares every age with the default TTL.
Expired_DefaultTtl(lock, t) == t - lock.acquiredAt > DEFAULT_LOCK_TTL_MS

\* Mutant: a lock is reclaimed as soon as its age reaches its TTL.
Expired_AtTtl(lock, t) == t - lock.acquiredAt >= lock.ttl

\* now - lock.acquiredAt > lock.ttl, socket.ts lines 500 and 505.
Expired(lock, t) == t - lock.acquiredAt > lock.ttl

\* Lock expiry sweep, socket.ts lines 496-509.
Sweep ==
    /\ now = nextSweep
    /\ nodeLocks' = MapDelete(nodeLocks,
                        {n \in DOMAIN nodeLocks : Expired(nodeLocks[n], now)})
    /\ docLock' = IF docLock # NoLock /\ Expired(docLock, now) THEN NoLock
                  ELSE docLock
    /\ nextSweep' = now + SWEEP_INTERVAL_MS
    /\ sent' = << >>
    /\ last' = [op |-> "sweep",
                freed |-> HeldKeys(nodeLocks, docLock)
                          \ HeldKeys(nodeLocks', docLock'),
                expired |-> {[key |-> k, lock |-> EntryOf(nodeLocks, docLock, k)] :
                               k \in HeldKeys(nodeLocks, docLock)
                                     \ HeldKeys(nodeLocks', docLock')}]
    /\ UNCHANGED <<readyState, wsAgentId, channels, agents, now>>

\* The clock advances; a due sweep runs before the clock moves on.
Tick ==
    /\ now < nextSweep
    /\ NextInstant(now) <= MaxTime
    /\ now' = NextInstant(now)
    /\ sent' = << >>
    /\ last' = [op |-> "tick"]
    /\ UNCHANGED <<readyState, wsAgentId, channels, agents, nodeLocks,
                   docLock, nextSweep>>

(* ------------------------------------------------------------ routing *)

\* Mutant: a join takes the connection out of its other channels.
Join_Exclusive(ws, data) ==
    /\ readyState[ws] = "open"
    /\ data.type = "join"
    /\ last' = [op |-> "frame", ws |-> ws, data |-> data]
    /\ IF data.channel = Undefined
       THEN /\ sent' = << [to |-> ws,
                           msg |-> [type |-> "error",
                                    message |-> "Channel name is required"]] >>
            /\ UNCHANGED channels
       ELSE LET members == Members(data.channel) \cup {ws}
            IN /\ channels' = MapSet([ch \in DOMAIN channels |->
                                          channels[ch] \ {ws}],
                                      data.channel, members)
               /\ sent' =
                    << [to |-> ws,
                        msg |-> [type |-> "system",
                                 message |-> <<"Joined channel: ", data.channel>>,
                                 channel |-> data.channel]],
                       [to |-> ws,
                        msg |-> [type |-> "system",
                                 message |-> [id |-> data.id,
                                              result |-> <<"Connected to channel: ",
                                                           data.channel>>],
                                 channel |-> data.channel]] >>
                    \o SendEach(members \ {ws},
                                [type |-> "system",
                                 message |-> "A new user has joined the channel",
                                 channel |-> data.channel])
    /\ UNCHANGED <<readyState, wsAgentId, agents, nodeLocks, docLock, now, nextSweep>>

\* join, socket.ts lines 201-249.
Join(ws, data) ==
    /\ readyState[ws] = "open"
    /\ data.type = "join"
    /\ last' = [op |-> "frame", ws |-> ws, data |-> data]
    /\ IF data.channel = Undefined
       THEN /\ sent' = << [to |-> ws,
                           msg |-> [type |-> "error",
                                    message |-> "Channel name is required"]] >>
            /\ UNCHANGED channels
       ELSE LET members == Members(data.channel) \cup {ws}
            IN /\ channels' = MapSet(channels, data.channel, members)
               /\ sent' =
                    << [to |-> ws,
                        msg |-> [type |-> "system",
                                 message |-> <<"Joined channel: ", data.channel>>,
                                 channel |-> data.channel]],
                       [to |-> ws,
                        msg |-> [type |-> "system",
                                 message |-> [id |-> data.id,
                                              result |-> <<"Connected to channel: ",
                                                           data.channel>>],
                                 channel |-> data.channel]] >>
                    \o SendEach(members \ {ws},
                                [type |-> "system",
                                 message |-> "A new user has joined the channel",
                                 channel |-> data.channel])
    /\ UNCHANGED <<readyState, wsAgentId, agents, nodeLocks, docLock, now, nextSweep>>

\* Mutant: a directed frame goes to the members of every channel.
DirectedTargets_AllChannels(targetChannel) ==
    UNION {channels[ch] : ch \in DOMAIN channels}

\* The connections a directed frame is forwarded to, socket.ts lines 368-382.
DirectedTargets(targetChannel) ==
    IF targetChannel = Undefined THEN {} ELSE Members(targetChannel)

\* Mutant: a directed frame is forwarded only for a sender that is a member
\* of the target channel.
Directed_MembersOnly(ws, data) ==
    /\ readyState[ws] = "open"
    /\ data.type = "directed"
    /\ last' = [op |-> "frame", ws |-> ws, data |-> data]
    /\ sent' = IF ws \in DirectedTargets(data.targetChannel)
               THEN SendEach(DirectedTargets(data.targetChannel),
                             [type |-> "broadcast", message |-> data.message,
                              sender |-> "plugin",
                              channel |-> data.targetChannel])
               ELSE << >>
    /\ UNCHANGED <<readyState, wsAgentId, channels, agents, nodeLocks, docLock,
                   now, nextSweep>>

\* directed, socket.ts lines 364-384.
Directed(ws, data) ==
    /\ readyState[ws] = "open"
    /\ data.type = "directed"
    /\ last' = [op |-> "frame", ws |-> ws, data |-> data]
    /\ sent' = SendEach(DirectedTargets(data.targetChannel),
                        [type |-> "broadcast", message |-> data.message,
                         sender |-> "plugin", channel |-> data.targetChannel])
    /\ UNCHANGED <<readyState, wsAgentId, channels, agents, nodeLocks, docLock,
                   now, nextSweep>>

\* Mutant: the broadcast is echoed to the sender as well.
BroadcastTargets_WithSender(ws, channelName) == Members(channelName)

\* The connections a message frame is broadcast to, socket.ts lines 409-410.
BroadcastTargets(ws, channelName) == Members(channelName) \ {ws}

\* Mutant: a message is broadcast whether or not the sender has joined.
Message_NoMembershipCheck(ws, data) ==
    /\ readyState[ws] = "open"
    /\ data.type = "message"
    /\ last' = [op |-> "frame", ws |-> ws, data |-> data]
    /\ sent' =
         IF data.channel = Undefined
         THEN << [to |-> ws,
                  msg |-> [type |-> "error",
                           message |-> "Channel name is required"]] >>
         ELSE SendEach(BroadcastTargets(ws, data.channel),
                       [type |-> "broadcast", message |-> data.message,
                        sender |-> "peer", channel |-> data.channel])
    /\ UNCHANGED <<readyState, wsAgentId, channels, agents, nodeLocks, docLock,
                   now, nextSweep>>

\* message, socket.ts lines 387-429.
Message(ws, data) ==
    /\ readyState[ws] = "open"
    /\ data.type = "message"
    /\ last' = [op |-> "frame", ws |-> ws, data |-> data]
    /\ sent' =
         IF data.channel = Undefined
         THEN << [to |-> ws,
                  msg |-> [type |-> "error",
                           message |-> "Channel name is required"]] >>
         ELSE IF ws \notin Members(data.channel)
         THEN << [to |-> ws,
                  msg |-> [type |-> "error",
                           message |-> "You must join the channel first"]] >>
         ELSE SendEach(BroadcastTargets(ws, data.channel),
                       [type |-> "broadcast", message |-> data.message,
                        sender |-> "peer", channel |-> data.channel])
    /\ UNCHANGED <<readyState, wsAgentId, channels, agents, nodeLocks, docLock,
                   now, nextSweep>>

\* Mutant: a progress_update is relayed whether or not the sender has
\* joined.
ProgressUpdate_NoMembershipCheck(ws, data) ==
    /\ readyState[ws] = "open"
    /\ data.type = "progress_update"
    /\ last' = [op |-> "frame", ws |-> ws, data |-> data]
    /\ sent' =
         IF data.channel = Undefined
         THEN << >>
         ELSE SendEach(Members(data.channel) \ {ws},
                       [type |-> "progress_update", message |-> data.message,
                        id |-> data.id, channel |-> data.channel])
    /\ UNCHANGED <<readyState, wsAgentId, channels, agents, nodeLocks, docLock,
                   now, nextSweep>>

\* progress_update, socket.ts lines 431-449.
ProgressUpdate(ws, data) ==
    /\ readyState[ws] = "open"
    /\ data.type = "progress_update"
    /\ last' = [op |-> "frame", ws |-> ws, data |-> data]
    /\ sent' =
         IF data.channel = Undefined \/ ws \notin Members(data.channel)
         THEN << >>
         ELSE SendEach(Members(data.channel) \ {ws},
                       [type |-> "progress_update", message |-> data.message,
                        id |-> data.id, channel |-> data.channel])
    /\ UNCHANGED <<readyState, wsAgentId, channels, agents, nodeLocks, docLock,
                   now, nextSweep>>

\* The frame types the message handler has a branch for, socket.ts lines
\* 201, 251, 284, 341, 364, 387 and 432.
KnownTypes ==
    {"join", "agent:register", "lock:acquire", "lock:release", "directed",
     "message", "progress_update"}

\* A parsed frame of a type no branch matches, socket.ts lines 189-453: the
\* handler falls through every branch.
OtherFrame(ws, data) ==
    /\ readyState[ws] = "open"
    /\ data.type \notin KnownTypes
    /\ last' = [op |-> "frame", ws |-> ws, data |-> data]
    /\ sent' = << >>
    /\ UNCHANGED <<readyState, wsAgentId, channels, agents, nodeLocks, docLock,
                   now, nextSweep>>

\* Mutant: a frame that does not parse is reported to its sender.
Unparseable_Reports(ws) ==
    /\ readyState[ws] = "open"
    /\ last' = [op |-> "unparseable", ws |-> ws]
    /\ sent' = << [to |-> ws,
                   msg |-> [type |-> "error", message |-> "Invalid JSON"]] >>
    /\ UNCHANGED <<readyState, wsAgentId, channels, agents, nodeLocks, docLock,
                   now, nextSweep>>

\* A frame JSON.parse rejects, socket.ts lines 190-191 and 450-452: the
\* exception is caught and logged.
Unparseable(ws) ==
    /\ readyState[ws] = "open"
    /\ last' = [op |-> "unparseable", ws |-> ws]
    /\ sent' = << >>
    /\ UNCHANGED <<readyState, wsAgentId, channels, agents, nodeLocks, docLock,
                   now, nextSweep>>

(* ------------------------------------------------------------- /status *)

\* new Date(ms).toISOString()
ToISOString(ms) == <<"iso", ms>>

\* Mutant: /status serves the doc lock from a copy that is never filled.
Status_StaleDoc ==
    [channels |-> Cardinality(DOMAIN channels),
     channelDetails |-> {[name |-> ch, clients |-> Cardinality(channels[ch])] :
                            ch \in DOMAIN channels},
     agents |-> {[agentId |-> agents[a].agentId,
                  channel |-> agents[a].channel,
                  mode |-> agents[a].mode,
                  connectedAt |-> ToISOString(agents[a].connectedAt)] :
                    a \in DOMAIN agents},
     agentCount |-> Cardinality(DOMAIN agents),
     locks |-> [nodes |-> {[nodeId |-> n,
                            agentId |-> nodeLocks[n].agentId,
                            acquiredAt |-> ToISOString(nodeLocks[n].acquiredAt),
                            ttlMs |-> nodeLocks[n].ttl] : n \in DOMAIN nodeLocks},
                doc |-> {}]]

\* GET /status, socket.ts lines 100-147.
Status ==
    [channels |-> Cardinality(DOMAIN channels),
     channelDetails |-> {[name |-> ch, clients |-> Cardinality(channels[ch])] :
                            ch \in DOMAIN channels},
     agents |-> {[agentId |-> agents[a].agentId,
                  channel |-> agents[a].channel,
                  mode |-> agents[a].mode,
                  connectedAt |-> ToISOString(agents[a].connectedAt)] :
                    a \in DOMAIN agents},
     agentCount |-> Cardinality(DOMAIN agents),
     locks |-> [nodes |-> {[nodeId |-> n,
                            agentId |-> nodeLocks[n].agentId,
                            acquiredAt |-> ToISOString(nodeLocks[n].acquiredAt),
                            ttlMs |-> nodeLocks[n].ttl] : n \in DOMAIN nodeLocks},
                doc |-> IF docLock # NoLock
                        THEN {[agentId |-> docLock.agentId,
                               acquiredAt |-> ToISOString(docLock.acquiredAt),
                               ttlMs |-> docLock.ttl]}
                        ELSE {}]]

\* The agentIds listed by /status.
StatusAgentIds == {a.agentId : a \in Status.agents}

\* The nodeIds /status lists as locked.
StatusNodeIds == {l.nodeId : l \in Status.locks.nodes}

(* ------------------------------------------------------------ history *)

\* The history variables; an action of a specification that does not
\* follow one of them leaves it unchanged.
NoGrantedOver == UNCHANGED grantedOver
NoHeldSince == UNCHANGED heldSince
NoDocDenied == UNCHANGED docDenied
NoRegisteredBy == UNCHANGED registeredBy
NoReplies == UNCHANGED <<inbox, got, sentLegacy>>

\* The frames of the given type that the last handler sent.
SentOfType(t) == {i \in 1..Len(sent) : sent[i].msg.type = t}

\* The last event was a frame of the given type.
LastFrame(t) == last.op = "frame" /\ last.data.type = t

\* The single reply of the last lock:acquire or lock:release.
Reply == sent[1].msg

\* A field of a frame, Undefined when the frame does not carry it.
Field(msg, f) == IF f \in DOMAIN msg THEN msg[f] ELSE Undefined

(* ------------------------------------------------ specification SpecLock *)
(* Lock arbitration, registration and disconnect with two connections and  *)
(* three agentIds; the clock stands still.                                  *)

LockConns == {"c1", "c2"}

RegisterFrames ==
    {[type |-> "agent:register", agentId |-> a, channel |-> "agent-1",
      mode |-> Undefined] : a \in AgentIds}

AcquireFrames(ttls) ==
    {[type |-> "lock:acquire", id |-> "r1", agentId |-> a, lockType |-> "doc",
      nodeId |-> Undefined, ttl |-> t] : a \in AgentIds, t \in ttls}
    \cup
    {[type |-> "lock:acquire", id |-> "r1", agentId |-> a, lockType |-> "node",
      nodeId |-> n, ttl |-> t] : a \in AgentIds, n \in NodeIds, t \in ttls}

ReleaseFrames ==
    {[type |-> "lock:release", id |-> "r1", agentId |-> a, lockType |-> "doc",
      nodeId |-> Undefined] : a \in AgentIds}
    \cup
    {[type |-> "lock:release", id |-> "r1", agentId |-> a, lockType |-> "node",
      nodeId |-> n] : a \in AgentIds, n \in NodeIds}

NoHistory ==
    NoGrantedOver /\ NoHeldSince /\ NoDocDenied /\ NoRegisteredBy /\ NoReplies

NextLock ==
    \/ \E ws \in LockConns : Open(ws) /\ NoHistory
    \/ \E ws \in LockConns : Close(ws) /\ NoHistory
    \/ \E ws \in LockConns, data \in RegisterFrames :
          AgentRegister(ws, data) /\ NoHistory
    \/ \E ws \in LockConns, data \in AcquireFrames({<< >>}) :
          LockAcquire(ws, data) /\ NoHistory
    \/ \E ws \in LockConns, data \in ReleaseFrames :
          LockRelease(ws, data) /\ NoHistory

SpecLock == Init /\ [][NextLock]_vars

(* ----------------------------------------------------------------- C1 *)

\* The step handles a node lock:acquire frame.
NodeAcquireStep ==
    /\ last'.op = "frame"
    /\ last'.data.type = "lock:acquire"
    /\ last'.data.lockType = "node"

\* The last event was a node lock:acquire frame.
NodeAcquireDone == LastFrame("lock:acquire") /\ last.data.lockType = "node"

\* Of two replies to agents A then B, one is a grant and the other a denial
\* naming the winner.
ExactlyOneWins(r1, A, r2, B) ==
    \/ /\ r1.type = "lock:acquired"
       /\ r2.type = "lock:denied"
       /\ Field(r2, "heldBy") = A
    \/ /\ r1.type = "lock:denied"
       /\ Field(r1, "heldBy") = B
       /\ r2.type = "lock:acquired"

\* A grant of a node key goes to an agent only when the key is free or
\* already its own: no second holder before a release, expiry or disconnect.
GrantOnlyWhenFree ==
    NodeAcquireStep /\ sent'[1].msg.type = "lock:acquired"
    => HolderOf(last'.data) \in {Undefined, last'.data.agentId}

\* Two distinct agents ask one after the other for the same free node.
RaceStep ==
    /\ NodeAcquireDone
    /\ last.held = Undefined
    /\ NodeAcquireStep
    /\ last'.data.nodeId = last.data.nodeId
    /\ last'.data.agentId # last.data.agentId

\* Every node key has one LockEntry with one holder.
OneHolder ==
    \A n \in DOMAIN nodeLocks' : nodeLocks'[n].agentId \in AgentIds

\* C1 as stated: two distinct agents asking for the same free node get one
\* lock:acquired and one lock:denied naming the winner, a node has at most
\* one holder, and no grant goes to another agent while the node is held.
C1_AsStated ==
    [][/\ RaceStep =>
            ExactlyOneWins(Reply, last.data.agentId,
                           sent'[1].msg, last'.data.agentId)
       /\ OneHolder
       /\ GrantOnlyWhenFree]_vars

\* C1 amended: the same, for races in which the doc lock is not held by a
\* third agent (then both requests are denied as doc-locked).
C1_MutualExclusion ==
    [][/\ (RaceStep /\ docLock.agentId \in {Undefined, last.data.agentId,
                                            last'.data.agentId}) =>
            ExactlyOneWins(Reply, last.data.agentId,
                           sent'[1].msg, last'.data.agentId)
       /\ OneHolder
       /\ GrantOnlyWhenFree]_vars

\* A second agent has just been denied a node that the first one won.
C1_Witness ==
    /\ NodeAcquireDone
    /\ Reply.type = "lock:denied"
    /\ Field(Reply, "reason") = Undefined
    /\ last.data.nodeId \in DOMAIN nodeLocks
    /\ nodeLocks[last.data.nodeId].agentId = Reply.heldBy
    /\ Reply.heldBy # last.data.agentId

(* ----------------------------------------------------------------- C2 *)

\* C2: while the doc lock is held by A, every node lock:acquire from an
\* agent B # A is denied with reason doc-locked and heldBy A, and grants
\* nothing.
C2_DocLockPreempts ==
    [][(NodeAcquireStep /\ docLock # NoLock
        /\ docLock.agentId # last'.data.agentId) =>
          /\ sent'[1].msg.type = "lock:denied"
          /\ Field(sent'[1].msg, "reason") = "doc-locked"
          /\ Field(sent'[1].msg, "heldBy") = docLock.agentId
          /\ Len(sent') = 1
          /\ nodeLocks' = nodeLocks]_vars

\* B was denied as doc-locked while the node is held by a third agent.
C2_Witness ==
    /\ NodeAcquireDone
    /\ Reply.type = "lock:denied"
    /\ Field(Reply, "reason") = "doc-locked"
    /\ last.data.nodeId \in DOMAIN nodeLocks
    /\ nodeLocks[last.data.nodeId].agentId \notin {Reply.heldBy, last.data.agentId}

(* ----------------------------------------------------------------- C5 *)

\* C5: when a connection closes, every node lock and the doc lock held by
\* the connection's tagged agentId is removed by the close handler.
C5_CloseReleasesTagged ==
    [][(last'.op = "close" /\ wsAgentId[last'.ws] # Undefined) =>
          /\ \A n \in DOMAIN nodeLocks :
                nodeLocks[n].agentId = wsAgentId[last'.ws]
                => n \notin DOMAIN nodeLocks'
          /\ docLock.agentId = wsAgentId[last'.ws] => docLock' = NoLock]_vars

(* ----------------------------------------------- specification SpecRetry *)
(* Lock arbitration with the history of the node requests that were denied *)
(* as doc-locked.                                                          *)

\* docDenied after a step: a node request denied as doc-locked is recorded
\* with the doc holder; the requester's next request for the node forgets
\* it; the holder's release of the doc lock marks its records released.
TrackDocDenied ==
    docDenied' =
      IF NodeAcquireStep
      THEN LET asked == {d \in docDenied :
                            /\ d.agentId = last'.data.agentId
                            /\ d.nodeId = last'.data.nodeId}
               r == sent'[1].msg
           IN IF r.type = "lock:denied" /\ "reason" \in DOMAIN r
              THEN (docDenied \ asked)
                   \cup {[agentId |-> last'.data.agentId,
                          nodeId |-> last'.data.nodeId,
                          by |-> r.heldBy, released |-> FALSE]}
              ELSE docDenied \ asked
      ELSE IF /\ last'.op = "frame"
              /\ last'.data.type = "lock:release"
              /\ last'.data.lockType = "doc"
              /\ docLock # NoLock
              /\ docLock.agentId = last'.data.agentId
      THEN {IF d.by = last'.data.agentId THEN [d EXCEPT !.released = TRUE]
            ELSE d : d \in docDenied}
      ELSE docDenied

RetryHistory ==
    TrackDocDenied /\ NoGrantedOver /\ NoHeldSince /\ NoRegisteredBy /\ NoReplies

RetryConns == {"c1"}

NextRetry ==
    \/ \E ws \in RetryConns : Open(ws) /\ RetryHistory
    \/ \E ws \in RetryConns : Close(ws) /\ RetryHistory
    \/ \E ws \in RetryConns, data \in AcquireFrames({<< >>}) :
          LockAcquire(ws, data) /\ RetryHistory
    \/ \E ws \in RetryConns, data \in ReleaseFrames :
          LockRelease(ws, data) /\ RetryHistory

SpecRetry == Init /\ [][NextRetry]_vars

(* ----------------------------------------------------------------- C3 *)

\* The step is B's next request for a node it was denied as doc-locked,
\* after the doc holder of that time released the doc lock.
RetryStep ==
    /\ NodeAcquireStep
    /\ \E d \in docDenied : /\ d.agentId = last'.data.agentId
                            /\ d.nodeId = last'.data.nodeId
                            /\ d.released

\* The step is the doc holder's lock:release of the doc lock.
DocReleaseStep ==
    /\ last'.op = "frame"
    /\ last'.data.type = "lock:release"
    /\ last'.data.lockType = "doc"
    /\ docLock # NoLock
    /\ docLock.agentId = last'.data.agentId

\* C3 as stated: after A released the doc lock, the next node request of an
\* agent B that had been denied as doc-locked is granted.
C3_AsStated ==
    [][RetryStep => sent'[1].msg.type = "lock:acquired"]_vars

\* C3 amended: A's release frees the doc lock, and B's next request for
\* the node is granted when no other agent holds the node or has taken the
\* doc lock by then.
C3_RetryAfterDocRelease ==
    [][/\ DocReleaseStep => docLock' = NoLock
       /\ (RetryStep /\ HolderOf(last'.data) \in {Undefined, last'.data.agentId}
           /\ docLock.agentId \in {Undefined, last'.data.agentId}) =>
             /\ sent'[1].msg.type = "lock:acquired"
             /\ nodeLocks'[last'.data.nodeId].agentId = last'.data.agentId]_vars

\* B holds the node it was first denied as doc-locked and then retried.
C3_Witness ==
    /\ NodeAcquireDone
    /\ Reply.type = "lock:acquired"
    /\ last.retry
    /\ docLock = NoLock

(* ----------------------------------------------- specification SpecClose *)
(* Registration, locks and disconnect of two connections and two agentIds, *)
(* with the history of the connection each current grant was sent to.      *)

CloseAgents == {"a1", "a2"}

CloseRegisterFrames == {f \in RegisterFrames : f.agentId \in CloseAgents}
CloseAcquireFrames == {f \in AcquireFrames({<< >>}) : f.agentId \in CloseAgents}
CloseReleaseFrames == {f \in ReleaseFrames : f.agentId \in CloseAgents}

\* grantedOver after a step: a grant is recorded with the connection the
\* lock:acquired went to; a key that is no longer held is forgotten.
TrackGrantedOver ==
    grantedOver' =
      IF /\ last'.op = "frame"
         /\ last'.data.type = "lock:acquire"
         /\ sent'[1].msg.type = "lock:acquired"
      THEN MapSet(Forget(nodeLocks', docLock'),
                  IF last'.data.lockType = "doc" THEN DOC ELSE last'.data.nodeId,
                  last'.ws)
      ELSE Forget(nodeLocks', docLock')

CloseHistory ==
    TrackGrantedOver /\ NoHeldSince /\ NoDocDenied /\ NoRegisteredBy /\ NoReplies

NextClose ==
    \/ \E ws \in LockConns : Open(ws) /\ CloseHistory
    \/ \E ws \in LockConns : Close(ws) /\ CloseHistory
    \/ \E ws \in LockConns, data \in CloseRegisterFrames :
          AgentRegister(ws, data) /\ CloseHistory
    \/ \E ws \in LockConns, data \in CloseAcquireFrames :
          LockAcquire(ws, data) /\ CloseHistory
    \/ \E ws \in LockConns, data \in CloseReleaseFrames :
          LockRelease(ws, data) /\ CloseHistory

SpecClose == Init /\ [][NextClose]_vars

(* ----------------------------------------------------------------- C4 *)

\* The step runs the close handler of a connection.
CloseStep == last'.op = "close"

\* C4 as stated: once a connection closes, every node lock granted in reply
\* to a lock:acquire sent over it, whatever agentId the frame carried, is
\* free with no explicit release.
C4_AsStated ==
    [][CloseStep =>
         \A n \in DOMAIN nodeLocks :
            grantedOver[n] = last'.ws => n \notin DOMAIN nodeLocks']_vars

\* C4 amended: once a connection closes, every node lock whose holder is an
\* agentId registered to that connection or, when the connection owns no
\* registry entry, its tagged agentId, is free right after the close
\* handler, with no explicit release, no sweep and whatever its TTL.
C4_CloseFreesOwnLocks ==
    [][CloseStep =>
         \A n \in DOMAIN nodeLocks :
            LET holder == nodeLocks[n].agentId
                owns == \E a \in DOMAIN agents : agents[a].ws = last'.ws
            IN (\/ holder \in DOMAIN agents /\ agents[holder].ws = last'.ws
                \/ ~owns /\ holder = wsAgentId[last'.ws])
               => n \notin DOMAIN nodeLocks']_vars

\* A connection that never registered has closed and its node lock went.
C4_Witness ==
    /\ last.op = "close"
    /\ last.freed # {}
    /\ DOC \notin last.freed
    /\ agents = EmptyMap
    /\ wsAgentId[last.ws] # Undefined

(* ----------------------------------------------- specification SpecRoute *)
(* Channel membership and relaying between three connections.              *)

RouteChannels == {"agent-1", "agent-2"}

\* The payload of a relayed frame: {id, replyTo, command | result}.
Payload(id, replyTo, body) == [id |-> id, replyTo |-> replyTo, body |-> body]

JoinFrames(chs) == {[type |-> "join", channel |-> ch, id |-> "r1"] : ch \in chs}

DirectedFrames(chs, payloads) ==
    {[type |-> "directed", targetChannel |-> ch, message |-> m] :
        ch \in chs, m \in payloads}

MessageFrames(chs, payloads) ==
    {[type |-> "message", channel |-> ch, message |-> m] :
        ch \in chs, m \in payloads}

RoutePayloads == {Payload("r1", Undefined, "result")}

NextRoute ==
    \/ \E ws \in Conns : Open(ws) /\ NoHistory
    \/ \E ws \in Conns : Drop(ws) /\ NoHistory
    \/ \E ws \in Conns : Close(ws) /\ NoHistory
    \/ \E ws \in Conns, data \in JoinFrames(RouteChannels) :
          Join(ws, data) /\ NoHistory
    \/ \E ws \in Conns, data \in DirectedFrames(RouteChannels, RoutePayloads) :
          Directed(ws, data) /\ NoHistory
    \/ \E ws \in Conns, data \in MessageFrames(RouteChannels, RoutePayloads) :
          Message(ws, data) /\ NoHistory

SpecRoute == Init /\ [][NextRoute]_vars

(* ----------------------------------------------------------------- C6 *)

\* C6: a directed frame naming targetChannel T is delivered, as a broadcast
\* frame with channel T, only to connections that are members of T when it
\* is handled; a connection that is not a member of T never receives it.
C6_DirectedIsolation ==
    [][(last'.op = "frame" /\ last'.data.type = "directed") =>
         \A i \in 1..Len(sent') :
            /\ sent'[i].to \in Members(last'.data.targetChannel)
            /\ sent'[i].msg.type = "broadcast"
            /\ sent'[i].msg.channel = last'.data.targetChannel
            /\ sent'[i].msg.message = last'.data.message]_vars

\* A directed frame was delivered while an open connection that is a member
\* of another channel only got nothing.
C6_Witness ==
    /\ LastFrame("directed")
    /\ Len(sent) >= 1
    /\ \E c \in Conns, ch \in DOMAIN channels :
          /\ IsOpen(c)
          /\ c \in channels[ch]
          /\ c \notin Members(last.data.targetChannel)
          /\ \A i \in 1..Len(sent) : sent[i].to # c

(* ----------------------------------------------- specification SpecReply *)
(* The request/response scenario of the integration tests: a mock plugin   *)
(* and two agents on one command channel, each agent with a private reply  *)
(* channel (socket.ts lines 634-736).                                      *)

PLUGIN == "c1"
ReplyAgents == {"c2", "c3"}
CommandChannel == "autofig"
PrivateOf(c) == IF c = "c2" THEN "agent-1" ELSE "agent-2"
CommandId(c) == IF c = "c2" THEN "id-1" ELSE "id-2"

\* The channels a participant of the scenario joins.
ScenarioJoins(c) ==
    IF c = PLUGIN THEN JoinFrames({CommandChannel})
    ELSE JoinFrames({CommandChannel, PrivateOf(c)})

\* The command of an agent, with or without a replyTo channel.
CommandFrames(c) ==
    MessageFrames({CommandChannel},
                  {Payload(CommandId(c), r, "command") :
                      r \in {PrivateOf(c), Undefined}})

\* startMockPlugin's listener, socket.ts lines 639-666: the frame the mock
\* plugin sends in answer to a command it received.
MockPluginReply(cmd) ==
    IF cmd.replyTo # Undefined
    THEN [type |-> "directed", targetChannel |-> cmd.replyTo,
          message |-> Payload(cmd.id, Undefined, "result")]
    ELSE [type |-> "message", channel |-> CommandChannel,
          message |-> Payload(cmd.id, Undefined, "result")]

\* The payloads of the broadcast frames the step delivered to c.
Delivered(c) ==
    {sent'[i].msg.message :
        i \in {j \in 1..Len(sent') : /\ sent'[j].to = c
                                     /\ sent'[j].msg.type = "broadcast"}}

\* got and sentLegacy after a step.
TrackReplies ==
    /\ got' = [c \in Conns |->
                 got[c] \cup {m.id : m \in {d \in Delivered(c) : d.body = "result"}}]
    /\ sentLegacy' =
         IF /\ last'.op = "frame"
            /\ last'.data.type = "message"
            /\ last'.data.message.body = "command"
            /\ last'.data.message.replyTo = Undefined
         THEN sentLegacy \cup {last'.data.message.id}
         ELSE sentLegacy

\* The commands delivered to the mock plugin by the step.
Received == {d \in Delivered(PLUGIN) : d.body = "command"}

ReplyHistory == NoGrantedOver /\ NoHeldSince /\ NoDocDenied /\ NoRegisteredBy

\* The mock plugin answers one of the commands it has received.
PluginRespond(cmd) ==
    /\ cmd \in inbox
    /\ \/ Directed(PLUGIN, MockPluginReply(cmd))
       \/ Message(PLUGIN, MockPluginReply(cmd))
    /\ inbox' = (inbox \ {cmd}) \cup Received

NextReply ==
    \/ \E ws \in ReplyAgents \cup {PLUGIN} :
          Open(ws) /\ TrackReplies /\ UNCHANGED inbox /\ ReplyHistory
    \/ \E ws \in ReplyAgents \cup {PLUGIN} : \E data \in ScenarioJoins(ws) :
          Join(ws, data) /\ TrackReplies /\ UNCHANGED inbox /\ ReplyHistory
    \/ \E ws \in ReplyAgents : \E data \in CommandFrames(ws) :
          /\ Message(ws, data)
          /\ inbox' = inbox \cup Received
          /\ TrackReplies /\ ReplyHistory
    \/ \E cmd \in inbox : PluginRespond(cmd) /\ TrackReplies /\ ReplyHistory

SpecReply == Init /\ [][NextReply]_vars

(* ----------------------------------------------------------------- C7 *)

\* C7 as stated: two agents on the same command channel that issue commands
\* with distinct correlation IDs each receive only the response carrying
\* their own ID.
C7_AsStated == \A c \in ReplyAgents : got[c] \subseteq {CommandId(c)}

\* C7 amended: an agent receives the response to the other agent's command
\* only if that command was sent without a replyTo channel; a command that
\* names the issuer's private channel as replyTo is answered to its issuer
\* alone.
C7_OwnResponseOnly ==
    \A c \in ReplyAgents :
        \A id \in got[c] : id = CommandId(c) \/ id \in sentLegacy

\* Both agents sent their command with a replyTo channel and each got its
\* own response.
C7_Witness ==
    /\ sentLegacy = {}
    /\ \A c \in ReplyAgents : got[c] = {CommandId(c)}

(* ---------------------------------------------- specification SpecStatus *)
(* The agent registry as /status shows it, with the history of the         *)
(* agentIds each connection has registered.                                *)

StatusRegisterFrames ==
    {[type |-> "agent:register", agentId |-> a, channel |-> "agent-1",
      mode |-> m] : a \in CloseAgents, m \in {Undefined, "read-only"}}

\* The step handles a valid agent:register frame.
RegisterStep ==
    /\ last'.op = "frame"
    /\ last'.data.type = "agent:register"
    /\ last'.data.agentId # Undefined
    /\ last'.data.channel # Undefined

\* registeredBy after a step.
TrackRegisteredBy ==
    registeredBy' =
      IF RegisterStep
      THEN [registeredBy EXCEPT ![last'.ws] = @ \cup {last'.data.agentId}]
      ELSE registeredBy

StatusHistory ==
    TrackRegisteredBy /\ NoGrantedOver /\ NoHeldSince /\ NoDocDenied /\ NoReplies

NextStatus ==
    \/ \E ws \in LockConns : Open(ws) /\ StatusHistory
    \/ \E ws \in LockConns : Drop(ws) /\ StatusHistory
    \/ \E ws \in LockConns : Close(ws) /\ StatusHistory
    \/ \E ws \in LockConns, data \in JoinFrames({FIGMA_BRIDGE}) :
          Join(ws, data) /\ StatusHistory
    \/ \E ws \in LockConns, data \in StatusRegisterFrames :
          AgentRegister(ws, data) /\ StatusHistory

SpecStatus == Init /\ [][NextStatus]_vars

(* ----------------------------------------------------------------- C8 *)

\* C8 as stated: an agentId is in the /status agent list right after a
\* connection's agent:register for it is handled, absent right after that
\* registering connection closes, and present for as long as that
\* connection stays open.
C8_AsStated ==
    [][/\ RegisterStep => last'.data.agentId \in StatusAgentIds'
       /\ CloseStep =>
            \A a \in registeredBy[last'.ws] : a \notin StatusAgentIds'
       /\ \A ws \in Conns :
            readyState'[ws] = "open" => registeredBy'[ws] \subseteq StatusAgentIds'
      ]_vars

\* C8 amended: an agentId is in the /status agent list right after an
\* agent:register for it is handled; it is absent right after the connection
\* that owns its entry (the one whose registration of it was handled last)
\* closes, and it stays listed until that connection closes.
C8_StatusFollowsOwner ==
    [][/\ RegisterStep =>
            /\ last'.data.agentId \in StatusAgentIds'
            /\ agents'[last'.data.agentId].ws = last'.ws
       /\ CloseStep =>
            \A a \in DOMAIN agents :
               agents[a].ws = last'.ws => a \notin StatusAgentIds'
       /\ \A a \in StatusAgentIds :
            a \notin StatusAgentIds' => CloseStep /\ agents[a].ws = last'.ws
      ]_vars

\* A registered connection has closed: its agentId left the /status list
\* and the agent of the other connection is still listed.
C8_Witness ==
    /\ last.op = "close"
    /\ last.gone # {}
    /\ last.gone \cap StatusAgentIds = {}
    /\ StatusAgentIds # {}

(* ------------------------------------------------ specification SpecTime *)
(* Locks with per-grant TTLs under the clock and the periodic sweep.       *)

TimeTtls == {<< >>, <<ShortTtl>>, <<SWEEP_INTERVAL_MS>>}

TimeAcquireFrames ==
    {f \in AcquireFrames(TimeTtls) : f.agentId \in CloseAgents}

NextTime ==
    \/ \E ws \in RetryConns : Open(ws) /\ NoHistory
    \/ \E ws \in RetryConns : Close(ws) /\ NoHistory
    \/ \E ws \in RetryConns, data \in TimeAcquireFrames :
          LockAcquire(ws, data) /\ NoHistory
    \/ \E ws \in RetryConns, data \in CloseReleaseFrames :
          LockRelease(ws, data) /\ NoHistory
    \/ Sweep /\ NoHistory
    \/ Tick /\ NoHistory

SpecTime == Init /\ [][NextTime]_vars

\* The step is a run of the expiry sweep.
SweepStep == last'.op = "sweep"

\* The lock keys /status lists as held.
StatusLockKeys ==
    StatusNodeIds \cup (IF Status.locks.doc = {} THEN {} ELSE {DOC})

\* The lock:acquire frame of agent a for the lock key k.
AcquireOf(a, k) ==
    [type |-> "lock:acquire", id |-> "r1", agentId |-> a,
     lockType |-> IF k = DOC THEN "doc" ELSE "node",
     nodeId |-> IF k = DOC THEN Undefined ELSE k, ttl |-> << >>]

\* Nothing held under the key k denies agent a: the doc lock is granted,
\* a node lock is granted unless the doc lock of another agent pre-empts it.
Acquirable(a, k) ==
    \/ AcquireReply(AcquireOf(a, k)).type = "lock:acquired"
    \/ k # DOC /\ DocBlocks(AcquireOf(a, k))

(* ----------------------------------------------------------------- C9 *)

C10_ReclamationLatency ==
    [][/\ \A k \in HeldKeys(nodeLocks', docLock') :
            LET lock == EntryOf(nodeLocks', docLock', k)
            IN now' - lock.acquiredAt <= lock.ttl + SWEEP_INTERVAL_MS
       /\ SweepStep =>
            \A k \in HeldKeys(nodeLocks, docLock) :
               LET lock == EntryOf(nodeLocks, docLock, k)
               IN \/ now - lock.acquiredAt > lock.ttl
                  \/ /\ k \in HeldKeys(nodeLocks', docLock')
                     /\ EntryOf(nodeLocks', docLock', k) = lock
      ]_vars

\* The sweep has just reclaimed a lock of TTL 5 s at the worst case, exactly
\* TTL + one sweep interval after the grant.
C10_Witness ==
    /\ last.op = "sweep"
    /\ \E e \in last.expired :
          /\ e.lock.ttl = SWEEP_INTERVAL_MS
          /\ now - e.lock.acquiredAt = e.lock.ttl + SWEEP_INTERVAL_MS

(* ---------------------------------------------------------------- C11 *)

\* The step handles a lock:release frame for the doc lock or a node.
ReleaseStep ==
    /\ last'.op = "frame"
    /\ last'.data.type = "lock:release"
    /\ last'.data.lockType \in {"doc", "node"}

\* The lock key a lock frame names.
KeyOf(data) == IF data.lockType = "doc" THEN DOC ELSE data.nodeId

\* C11: a lock:release whose agentId is not the current holder of the key
\* leaves the node-lock table and the doc lock unchanged; a release by the
\* holder frees the key and nothing else; either way the sender alone gets
\* one lock:released echoing id, lockType and nodeId.
C11_ReleaseByNonHolder ==
    [][ReleaseStep =>
         LET data == last'.data
             k == KeyOf(data)
         IN /\ Len(sent') = 1
            /\ sent'[1].to = last'.ws
            /\ sent'[1].msg.type = "lock:released"
            /\ sent'[1].msg.id = data.id
            /\ sent'[1].msg.lockType = data.lockType
            /\ Field(sent'[1].msg, "nodeId") = data.nodeId
            /\ IF k \in HeldKeys(nodeLocks, docLock) /\ HolderOf(data) = data.agentId
               THEN /\ HeldKeys(nodeLocks', docLock')
                         = HeldKeys(nodeLocks, docLock) \ {k}
                    /\ \A j \in HeldKeys(nodeLocks', docLock') :
                          EntryOf(nodeLocks', docLock', j)
                             = EntryOf(nodeLocks, docLock, j)
               ELSE nodeLocks' = nodeLocks /\ docLock' = docLock
      ]_vars

\* A lock:release by an agent that does not hold the key has been answered
\* with lock:released and the key is still held by its holder.
C11_Witness ==
    /\ LastFrame("lock:release")
    /\ last.data.lockType \in {"doc", "node"}
    /\ HolderOf(last.data) \notin {Undefined, last.data.agentId}
    /\ Reply.type = "lock:released"

(* ---------------------------------------------------------------- C12 *)

\* The step handles a lock:acquire frame for the doc lock or a node, sent
\* in the name of the agent that holds that key.
ReacquireStep ==
    /\ last'.op = "frame"
    /\ last'.data.type = "lock:acquire"
    /\ last'.data.lockType \in {"doc", "node"}
    /\ KeyOf(last'.data) \in HeldKeys(nodeLocks, docLock)
    /\ last'.held = last'.data.agentId

\* The holder's request was granted and the entry restarted at the
\* current time.
Refreshed ==
    /\ sent'[1].msg.type = "lock:acquired"
    /\ EntryOf(nodeLocks', docLock', KeyOf(last'.data)) =
          [agentId |-> last'.data.agentId, acquiredAt |-> now',
           ttl |-> EffectiveTtl(last'.data)]

\* C12 as stated: whenever the holder of a key sends lock:acquire for it
\* again the request is granted and acquiredAt is refreshed, whatever other
\* agents hold.
C12_AsStated == [][ReacquireStep => Refreshed]_vars

\* C12 amended: the holder's lock:acquire for its key is granted and
\* refreshes acquiredAt, except that the holder of a node is denied as
\* doc-locked, the entry staying as it was, while another agent holds the
\* doc lock.
C12_Reentrant ==
    [][ReacquireStep =>
         IF last'.data.lockType = "node" /\ DocBlocks(last'.data)
         THEN /\ sent'[1].msg.type = "lock:denied"
              /\ Field(sent'[1].msg, "reason") = "doc-locked"
              /\ nodeLocks' = nodeLocks
         ELSE Refreshed
      ]_vars

\* The holder of the doc lock has re-acquired it after time has passed,
\* while the other agent holds a node: the entry carries the current time.
C12_Witness ==
    /\ LastFrame("lock:acquire")
    /\ last.data.lockType = "doc"
    /\ last.held = last.data.agentId
    /\ Reply.type = "lock:acquired"
    /\ docLock.acquiredAt = now
    /\ now > 0
    /\ \E n \in DOMAIN nodeLocks : nodeLocks[n].agentId # last.data.agentId

(* ---------------------------------------------------------------- C13 *)

\* The step handles a lock:acquire frame with lockType "doc".
DocAcquireStep ==
    /\ last'.op = "frame"
    /\ last'.data.type = "lock:acquire"
    /\ last'.data.lockType = "doc"

\* C13: a lock:acquire for the doc lock, granted or denied, leaves the
\* node-lock table unchanged: node locks held by other agents stay held
\* after another agent obtains the doc lock.
C13_DocGrantKeepsNodes == [][DocAcquireStep => nodeLocks' = nodeLocks]_vars

\* An agent has just been granted the free doc lock while the other agent
\* holds a node, and the node is still held.
C13_Witness ==
    /\ LastFrame("lock:acquire")
    /\ last.data.lockType = "doc"
    /\ last.held = Undefined
    /\ Reply.type = "lock:acquired"
    /\ docLock.agentId = last.data.agentId
    /\ \E n \in DOMAIN nodeLocks : nodeLocks[n].agentId # docLock.agentId

(* ---------------------------------------------------------------- C14 *)

\* The step handles a lock:acquire frame that is answered lock:denied.
DeniedStep ==
    /\ last'.op = "frame"
    /\ last'.data.type = "lock:acquire"
    /\ sent'[1].msg.type = "lock:denied"

\* C14: a lock:acquire answered lock:denied leaves the node-lock table and
\* the doc-lock cell exactly as they were, acquiredAt and ttl of the holder
\* included.
C14_DeniedChangesNothing ==
    [][DeniedStep => nodeLocks' = nodeLocks /\ docLock' = docLock]_vars

\* A request has been denied after time has passed since the holder's
\* grant, with a TTL other than the holder's; the holder's entry is older
\* than the request.
C14_Witness ==
    /\ LastFrame("lock:acquire")
    /\ Reply.type = "lock:denied"
    /\ last.held \notin {Undefined, last.data.agentId}
    /\ LET lock == EntryOf(nodeLocks, docLock, KeyOf(last.data))
       IN /\ lock.acquiredAt < now
          /\ lock.ttl # EffectiveTtl(last.data)

(* ---------------------------------------------------------------- C15 *)

\* The step handles a lock:acquire frame that carries an agentId, a valid
\* lockType and, for a node lock, a nodeId.
ValidAcquireStep ==
    /\ last'.op = "frame"
    /\ last'.data.type = "lock:acquire"
    /\ last'.data.agentId # Undefined
    /\ \/ last'.data.lockType = "doc"
       \/ last'.data.lockType = "node" /\ last'.data.nodeId # Undefined

\* The keys whose entry after the step is not the entry before it.
NewlyHeld ==
    {k \in HeldKeys(nodeLocks', docLock') :
        \/ k \notin HeldKeys(nodeLocks, docLock)
        \/ EntryOf(nodeLocks', docLock', k) # EntryOf(nodeLocks, docLock, k)}

\* C15: a valid lock:acquire is answered within its own step by exactly one
\* frame, lock:acquired or lock:denied, to the sender and by nothing to any
\* other connection; nothing is queued: a key gets a holder, and a
\* lock:acquired is sent, only in the step of a lock:acquire frame for that
\* key and agent.
C15_AcquireIsSynchronous ==
    [][/\ ValidAcquireStep =>
            /\ Len(sent') = 1
            /\ sent'[1].to = last'.ws
            /\ sent'[1].msg.type \in {"lock:acquired", "lock:denied"}
            /\ sent'[1].msg.id = last'.data.id
       /\ \A k \in NewlyHeld :
            /\ ValidAcquireStep
            /\ KeyOf(last'.data) = k
            /\ EntryOf(nodeLocks', docLock', k).agentId = last'.data.agentId
            /\ sent'[1].msg.type = "lock:acquired"
       /\ \A i \in 1..Len(sent') :
            sent'[i].msg.type \in {"lock:acquired", "lock:denied"}
               => ValidAcquireStep
      ]_vars

\* A request was denied over one connection while the other is open, and
\* the single reply went to the sender.
C15_Witness ==
    /\ LastFrame("lock:acquire")
    /\ Len(sent) = 1
    /\ Reply.type = "lock:denied"
    /\ sent[1].to = last.ws
    /\ \E ws \in LockConns \ {last.ws} : readyState[ws] = "open"

(* ---------------------------------------------- specification SpecSweep *)
(* The periodic sweep next to a joined channel and a registered agent.     *)

SweepTtls == {<< >>, <<ShortTtl>>}

SweepAcquireFrames ==
    {f \in AcquireFrames(SweepTtls) : f.agentId \in CloseAgents}

SweepRegisterFrames == {f \in RegisterFrames : f.agentId = "a1"}

NextSweep ==
    \/ \E ws \in RetryConns : Open(ws) /\ NoHistory
    \/ \E ws \in RetryConns : Close(ws) /\ NoHistory
    \/ \E ws \in RetryConns, data \in JoinFrames({FIGMA_BRIDGE}) :
          Join(ws, data) /\ NoHistory
    \/ \E ws \in RetryConns, data \in SweepRegisterFrames :
          AgentRegister(ws, data) /\ NoHistory
    \/ \E ws \in RetryConns, data \in SweepAcquireFrames :
          LockAcquire(ws, data) /\ NoHistory
    \/ \E ws \in RetryConns, data \in CloseReleaseFrames :
          LockRelease(ws, data) /\ NoHistory
    \/ Sweep /\ NoHistory
    \/ Tick /\ NoHistory

SpecSweep == Init /\ [][NextSweep]_vars

(* ---------------------------------------------------------------- C16 *)

\* C16: a sweep tick at time now removes exactly the node-lock entries and
\* the doc lock with now - acquiredAt > ttl, leaves every other entry as it
\* was, and changes neither channel membership nor the agent registry.
C16_SweepCorrect ==
    [][SweepStep =>
         /\ DOMAIN nodeLocks' =
               {n \in DOMAIN nodeLocks :
                   ~(now - nodeLocks[n].acquiredAt > nodeLocks[n].ttl)}
         /\ \A n \in DOMAIN nodeLocks' : nodeLocks'[n] = nodeLocks[n]
         /\ docLock' = IF docLock # NoLock
                          /\ now - docLock.acquiredAt > docLock.ttl
                       THEN NoLock ELSE docLock
         /\ channels' = channels
         /\ agents' = agents
      ]_vars

\* The sweep has just removed one lock and kept another, with a member in
\* a channel and an agent in the registry.
C16_Witness ==
    /\ last.op = "sweep"
    /\ last.expired # {}
    /\ HeldKeys(nodeLocks, docLock) # {}
    /\ \E ch \in DOMAIN channels : channels[ch] # {}
    /\ DOMAIN agents # {}

(* ---------------------------------------------------------------- C17 *)

\* C17: in every reachable state /status reports exactly the entries of the
\* node-lock table and the doc-lock cell, so a released, swept or
\* disconnected lock is not reported; the agents and the per-channel member
\* counts it reports are those of the registry and the member sets.
C17_StatusIsLive ==
    /\ {l.nodeId : l \in Status.locks.nodes} = DOMAIN nodeLocks
    /\ \A l \in Status.locks.nodes :
          /\ l.agentId = nodeLocks[l.nodeId].agentId
          /\ l.acquiredAt = ToISOString(nodeLocks[l.nodeId].acquiredAt)
          /\ l.ttlMs = nodeLocks[l.nodeId].ttl
    /\ Cardinality(Status.locks.nodes) = Cardinality(DOMAIN nodeLocks)
    /\ IF docLock = NoLock THEN Status.locks.doc = {}
       ELSE Status.locks.doc =
               {[agentId |-> docLock.agentId,
                 acquiredAt |-> ToISOString(docLock.acquiredAt),
                 ttlMs |-> docLock.ttl]}
    /\ {a.agentId : a \in Status.agents} = DOMAIN agents
    /\ \A a \in Status.agents :
          /\ a.channel = agents[a.agentId].channel
          /\ a.mode = agents[a.agentId].mode
          /\ a.connectedAt = ToISOString(agents[a.agentId].connectedAt)
    /\ Status.agentCount = Cardinality(DOMAIN agents)
    /\ {d.name : d \in Status.channelDetails} = DOMAIN channels
    /\ \A d \in Status.channelDetails :
          d.clients = Cardinality(channels[d.name])
    /\ Status.channels = Cardinality(DOMAIN channels)

\* The sweep has just removed a lock that /status no longer reports, while
\* /status reports the doc lock still held, an agent and a channel member.
C17_Witness ==
    /\ last.op = "sweep"
    /\ last.expired # {}
    /\ \A x \in last.expired : x.key \notin StatusLockKeys
    /\ Status.locks.doc # {}
    /\ Status.agentCount > 0
    /\ \E d \in Status.channelDetails : d.clients > 0

(* ---------------------------------------------------------------- C18 *)

\* The step handles a message frame for a channel the sender is a member of.
MemberMessageStep ==
    /\ last'.op = "frame"
    /\ last'.data.type = "message"
    /\ last'.data.channel # Undefined
    /\ last'.ws \in Members(last'.data.channel)

\* The frames the step sent to connection c.
SentTo(c) == {i \in 1..Len(sent') : sent'[i].to = c}

\* C18: a message frame for channel C from a member of C delivers exactly
\* one broadcast frame, with the payload and channel C, to every other open
\* member of C and nothing to the sender, to non-members or to members that
\* are no longer open; membership, registry and locks stay as they were.
C18_BroadcastExcludesSender ==
    [][MemberMessageStep =>
         LET data == last'.data
         IN /\ \A c \in Conns :
                 Cardinality(SentTo(c)) =
                    IF /\ c \in channels[data.channel]
                       /\ c # last'.ws
                       /\ readyState[c] = "open"
                    THEN 1 ELSE 0
            /\ \A i \in 1..Len(sent') :
                 /\ sent'[i].msg.type = "broadcast"
                 /\ sent'[i].msg.message = data.message
                 /\ sent'[i].msg.channel = data.channel
            /\ UNCHANGED <<channels, agents, nodeLocks, docLock>>
      ]_vars

\* A member's message has reached the one other open member of its channel
\* and neither the sender nor the member whose transport is gone.
C18_Witness ==
    /\ LastFrame("message")
    /\ last.ws \in Members(last.data.channel)
    /\ Len(sent) = 1
    /\ sent[1].to # last.ws
    /\ sent[1].msg.type = "broadcast"
    /\ \E c \in Members(last.data.channel) : readyState[c] # "open"
    /\ Cardinality(Members(last.data.channel)) = 3

(* ---------------------------------------------------------------- C19 *)

\* The step handles a message frame for a channel the sender has not
\* joined, the channel existing or not.
OutsiderMessageStep ==
    /\ last'.op = "frame"
    /\ last'.data.type = "message"
    /\ last'.data.channel # Undefined
    /\ last'.ws \notin Members(last'.data.channel)

\* C19: a message frame for a channel the sender has not joined, or that
\* does not exist, yields one error frame to the sender and nothing to any
\* member of the channel, and neither creates the channel nor adds the
\* sender to it.
C19_MessageNeedsMembership ==
    [][OutsiderMessageStep =>
         /\ Len(sent') = 1
         /\ sent'[1].to = last'.ws
         /\ sent'[1].msg.type = "error"
         /\ channels' = channels
         /\ last'.data.channel \in DOMAIN channels'
               => last'.ws \notin channels'[last'.data.channel]
      ]_vars

\* A connection has sent a message to a channel it never joined while an
\* open member was in that channel, and got the error alone.
C19_Witness ==
    /\ LastFrame("message")
    /\ last.ws \notin Members(last.data.channel)
    /\ \E c \in Members(last.data.channel) : readyState[c] = "open"
    /\ Len(sent) = 1
    /\ sent[1].to = last.ws
    /\ Reply.type = "error"

(* --------------------------------------------- specification SpecFields *)
(* Every client frame type, complete and with a required field left out.   *)

FieldChannels == {"agent-1", Undefined}
FieldAgents == {"a1", Undefined}
FieldNodes == {"n1", Undefined}

FieldJoinFrames == JoinFrames(FieldChannels)

FieldMessageFrames == MessageFrames(FieldChannels, RoutePayloads)

FieldDirectedFrames == DirectedFrames(FieldChannels, RoutePayloads)

FieldProgressFrames ==
    {[type |-> "progress_update", channel |-> ch, id |-> "r1",
      message |-> "half"] : ch \in FieldChannels}

FieldRegisterFrames ==
    {[type |-> "agent:register", agentId |-> a, channel |-> ch,
      mode |-> Undefined] : a \in FieldAgents, ch \in FieldChannels}

FieldAcquireFrames ==
    {[type |-> "lock:acquire", id |-> "r1", agentId |-> a, lockType |-> t,
      nodeId |-> n, ttl |-> << >>] :
        a \in FieldAgents, t \in {"doc", "node"}, n \in FieldNodes}

FieldReleaseFrames ==
    {[type |-> "lock:release", id |-> "r1", agentId |-> a, lockType |-> t,
      nodeId |-> n] :
        a \in FieldAgents, t \in {"doc", "node"}, n \in FieldNodes}

NextFields ==
    \/ \E ws \in LockConns : Open(ws) /\ NoHistory
    \/ \E ws \in LockConns : Close(ws) /\ NoHistory
    \/ \E ws \in LockConns, data \in FieldJoinFrames :
          Join(ws, data) /\ NoHistory
    \/ \E ws \in LockConns, data \in FieldMessageFrames :
          Message(ws, data) /\ NoHistory
    \/ \E ws \in LockConns, data \in FieldDirectedFrames :
          Directed(ws, data) /\ NoHistory
    \/ \E ws \in LockConns, data \in FieldProgressFrames :
          ProgressUpdate(ws, data) /\ NoHistory
    \/ \E ws \in LockConns, data \in FieldRegisterFrames :
          AgentRegister(ws, data) /\ NoHistory
    \/ \E ws \in LockConns, data \in FieldAcquireFrames :
          LockAcquire(ws, data) /\ NoHistory
    \/ \E ws \in LockConns, data \in FieldReleaseFrames :
          LockRelease(ws, data) /\ NoHistory

SpecFields == Init /\ [][NextFields]_vars

(* ---------------------------------------------------------------- C20 *)

\* The step handles a frame that lacks a field its type requires.
MissingFieldStep ==
    /\ last'.op = "frame"
    /\ LET data == last'.data
       IN \/ data.type \in {"join", "message", "progress_update"}
             /\ data.channel = Undefined
          \/ data.type = "agent:register"
             /\ (data.agentId = Undefined \/ data.channel = Undefined)
          \/ data.type = "lock:acquire"
             /\ \/ data.agentId = Undefined
                \/ data.lockType = "node" /\ data.nodeId = Undefined
          \/ data.type = "lock:release" /\ data.agentId = Undefined
          \/ data.type = "directed" /\ data.targetChannel = Undefined

\* C20: a client frame that lacks one of its required fields is answered by
\* one error frame to the sender only and changes neither channels nor
\* agents nor locks.
C20_MissingFieldIsError ==
    [][MissingFieldStep =>
         /\ Len(sent') = 1
         /\ sent'[1].to = last'.ws
         /\ sent'[1].msg.type = "error"
         /\ UNCHANGED <<channels, agents, nodeLocks, docLock>>
      ]_vars

(* ---------------------------------------------- specification SpecTypes *)
(* Lock frames with known and unknown lockType, and frames of a type the   *)
(* broker does not know.                                                   *)

LockTypes == {"doc", "node", "page"}

TypesAcquireFrames ==
    {[type |-> "lock:acquire", id |-> "r1", agentId |-> a, lockType |-> t,
      nodeId |-> "n1", ttl |-> << >>] : a \in CloseAgents, t \in LockTypes}

TypesReleaseFrames ==
    {[type |-> "lock:release", id |-> "r1", agentId |-> a, lockType |-> t,
      nodeId |-> "n1"] : a \in CloseAgents, t \in LockTypes}

TypesOtherFrames == {[type |-> t, id |-> "r1"] : t \in {"ping", "leave"}}

NextTypes ==
    \/ \E ws \in LockConns : Open(ws) /\ NoHistory
    \/ \E ws \in LockConns : Close(ws) /\ NoHistory
    \/ \E ws \in LockConns, data \in TypesAcquireFrames :
          LockAcquire(ws, data) /\ NoHistory
    \/ \E ws \in LockConns, data \in TypesReleaseFrames :
          LockRelease(ws, data) /\ NoHistory
    \/ \E ws \in LockConns, data \in TypesOtherFrames :
          OtherFrame(ws, data) /\ NoHistory

SpecTypes == Init /\ [][NextTypes]_vars

(* ---------------------------------------------------------------- C21 *)

\* The value of the discriminator the step's frame carries when the broker
\* does not know it, Undefined when it knows the frame.
UnknownValue(data) ==
    IF data.type \notin KnownTypes THEN data.type
    ELSE IF /\ data.type \in {"lock:acquire", "lock:release"}
            /\ data.lockType \notin {"doc", "node"}
    THEN data.lockType
    ELSE Undefined

\* The frame m is an error frame that carries the value v in its message.
ErrorEchoing(m, v) ==
    /\ m.type = "error"
    /\ \E i \in 1..Len(m.message) : m.message[i] = v

\* C21: a lock frame with an unknown lockType, and a frame of an unknown
\* type, is answered with one error frame to the sender that echoes the
\* unknown value, and changes no lock state.
C21_UnknownIsError ==
    [][(last'.op = "frame" /\ UnknownValue(last'.data) # Undefined) =>
         /\ Len(sent') = 1
         /\ sent'[1].to = last'.ws
         /\ ErrorEchoing(sent'[1].msg, UnknownValue(last'.data))
         /\ UNCHANGED <<nodeLocks, docLock>>
      ]_vars

(* ------------------------------------------------ specification SpecBad *)
(* Frames the broker rejects (unparseable, lacking a field, of unknown     *)
(* type, to a channel not joined) mixed with frames it accepts.            *)

BadAcquireFrames == {f \in FieldAcquireFrames : f.lockType = "doc"}

NextBad ==
    \/ \E ws \in LockConns : Open(ws) /\ NoHistory
    \/ \E ws \in LockConns : Close(ws) /\ NoHistory
    \/ \E ws \in LockConns : Unparseable(ws) /\ NoHistory
    \/ \E ws \in LockConns, data \in TypesOtherFrames :
          OtherFrame(ws, data) /\ NoHistory
    \/ \E ws \in LockConns, data \in FieldJoinFrames :
          Join(ws, data) /\ NoHistory
    \/ \E ws \in LockConns, data \in FieldMessageFrames :
          Message(ws, data) /\ NoHistory
    \/ \E ws \in LockConns, data \in FieldRegisterFrames :
          AgentRegister(ws, data) /\ NoHistory
    \/ \E ws \in LockConns, data \in BadAcquireFrames :
          LockAcquire(ws, data) /\ NoHistory

SpecBad == Init /\ [][NextBad]_vars

(* ---------------------------------------------------------------- C22 *)

\* The last event was a frame the broker rejected: unparseable, of unknown
\* type, lacking a required field, or a message to a channel not joined.
BadFrameDone ==
    \/ last.op = "unparseable"
    \/ /\ last.op = "frame"
       /\ \/ last.data.type \notin KnownTypes
          \/ /\ Len(sent) = 1
             /\ sent[1].to = last.ws
             /\ sent[1].msg.type = "error"

\* The step is the arrival of a frame, parseable or not.
InboundStep == last'.op \in {"frame", "unparseable"}

\* C22: an unparseable frame is answered to nobody and leaves channels,
\* agents and locks unchanged; no inbound frame closes a connection; and
\* the frame a connection sends after a rejected one is processed as usual:
\* its join of a named channel makes it a member and is acknowledged.
C22_BadFramesIgnored ==
    [][/\ last'.op = "unparseable" =>
            /\ sent' = << >>
            /\ UNCHANGED <<channels, agents, nodeLocks, docLock>>
       /\ InboundStep => readyState' = readyState
       /\ (/\ BadFrameDone
           /\ last'.op = "frame"
           /\ last'.ws = last.ws
           /\ last'.data.type = "join"
           /\ last'.data.channel # Undefined)
            => /\ last'.ws \in channels'[last'.data.channel]
               /\ Len(sent') >= 2
               /\ sent'[1].to = last'.ws
               /\ sent'[1].msg.type = "system"
      ]_vars

\* An unparseable frame has just been dropped: nobody got a reply, the
\* sender is still open, and the channel, the registry and the doc lock it
\* found are in place.
C22_Witness ==
    /\ last.op = "unparseable"
    /\ sent = << >>
    /\ readyState[last.ws] = "open"
    /\ \E ch \in DOMAIN channels : last.ws \in channels[ch]
    /\ DOMAIN agents # {}
    /\ docLock # NoLock

(* ---------------------------------------------------------------- C23 *)

\* The step handles a join frame that names a channel.
JoinStep ==
    /\ last'.op = "frame"
    /\ last'.data.type = "join"
    /\ last'.data.channel # Undefined

\* C23: a join of a named channel creates its member set if absent and adds
\* the connection; every other member set stays as it was, so the
\* connection keeps its other channels; a join of a channel the connection
\* is already in changes no member set.
C23_JoinIdempotent ==
    [][JoinStep =>
         LET ch == last'.data.channel
         IN /\ DOMAIN channels' = DOMAIN channels \cup {ch}
            /\ channels'[ch] = Members(ch) \cup {last'.ws}
            /\ Cardinality(channels'[ch]) =
                  Cardinality(Members(ch))
                     + (IF last'.ws \in Members(ch) THEN 0 ELSE 1)
            /\ \A other \in DOMAIN channels \ {ch} :
                  channels'[other] = channels[other]
            /\ last'.ws \in Members(ch) => channels' = channels
      ]_vars

\* A connection has just joined a channel and is a member of both channels
\* at once, next to another member.
C23_Witness ==
    /\ LastFrame("join")
    /\ \A ch \in RouteChannels : last.ws \in Members(ch)
    /\ Cardinality(Members(last.data.channel)) >= 2

(* ---------------------------------------------------------------- C24 *)

\* C24: when a connection closes it leaves the member set of every channel
\* it was in, and every remaining open member of each such channel is sent
\* a frame telling that a user has left that channel.
C24_CloseNotifiesPeers ==
    [][CloseStep =>
         /\ \A ch \in DOMAIN channels' : last'.ws \notin channels'[ch]
         /\ \A ch \in DOMAIN channels :
               last'.ws \in channels[ch] =>
                  \A c \in channels[ch] \ {last'.ws} :
                     readyState[c] = "open" =>
                        \E i \in 1..Len(sent') :
                           /\ sent'[i].to = c
                           /\ sent'[i].msg.type = "system"
                           /\ Field(sent'[i].msg, "channel") = ch
      ]_vars

(* ---------------------------------------------------------------- C25 *)

\* C25: in every reachable state a connection whose close has been handled
\* is a member of no channel and owns no AgentInfo entry, and the owning
\* connection of every AgentInfo entry is a connection that has opened and
\* whose close has not been handled.
C25_NoClosedConnectionLeft ==
    /\ \A c \in Conns :
          readyState[c] = "closed" =>
             /\ \A ch \in DOMAIN channels : c \notin channels[ch]
             /\ \A a \in DOMAIN agents : agents[a].ws # c
    /\ \A a \in DOMAIN agents :
          readyState[agents[a].ws] \in {"open", "closing"}
    /\ \A ch \in DOMAIN channels :
          \A c \in channels[ch] : readyState[c] \in {"open", "closing"}

\* A connection that had registered has closed and took its entry with it,
\* while the other connection is still a channel member and still owns an
\* entry.
C25_Witness ==
    /\ last.op = "close"
    /\ registeredBy[last.ws] # {}
    /\ last.gone # {}
    /\ readyState[last.ws] = "closed"
    /\ \E a \in DOMAIN agents : readyState[agents[a].ws] = "open"
    /\ \E ch \in DOMAIN channels : channels[ch] # {}

(* -------------------------------------------- specification SpecCleanup *)
(* Close of connections that joined channels, registered and took locks,   *)
(* with members in the administrative channel.                             *)

CleanupChannels == {FIGMA_BRIDGE, "agent-1"}

CleanupAcquireFrames == {f \in CloseAcquireFrames : f.lockType = "node"}

NextCleanup ==
    \/ \E ws \in LockConns : Open(ws) /\ NoHistory
    \/ \E ws \in LockConns : Close(ws) /\ NoHistory
    \/ \E ws \in LockConns, data \in JoinFrames(CleanupChannels) :
          Join(ws, data) /\ NoHistory
    \/ \E ws \in LockConns, data \in CloseRegisterFrames :
          AgentRegister(ws, data) /\ NoHistory
    \/ \E ws \in LockConns, data \in CleanupAcquireFrames :
          LockAcquire(ws, data) /\ NoHistory

SpecCleanup == Init /\ [][NextCleanup]_vars

(* ---------------------------------------------------------------- C26 *)

\* The close handler of the step ran once, for a connection not closed
\* before: it took the connection out of every channel, deleted the entries
\* it owned, released the locks of the given agentIds and no other, and
\* sent one agent:disconnected per deleted entry to each open member of
\* the administrative channel and nothing else.
CleanedUp(ws, released) ==
    /\ readyState[ws] # "closed"
    /\ readyState'[ws] = "closed"
    /\ channels' = [ch \in DOMAIN channels |-> channels[ch] \ {ws}]
    /\ DOMAIN agents' = {a \in DOMAIN agents : agents[a].ws # ws}
    /\ \A a \in DOMAIN agents' : agents'[a] = agents[a]
    /\ DOMAIN nodeLocks' =
          {n \in DOMAIN nodeLocks : nodeLocks[n].agentId \notin released}
    /\ \A n \in DOMAIN nodeLocks' : nodeLocks'[n] = nodeLocks[n]
    /\ docLock' = IF docLock.agentId \in released THEN NoLock ELSE docLock
    /\ \A i \in 1..Len(sent') : sent'[i].msg.type = "agent:disconnected"
    /\ \A c \in Conns, a \in AgentIds :
          Cardinality({i \in 1..Len(sent') :
                          sent'[i].to = c /\ sent'[i].msg.agentId = a}) =
             IF /\ a \in DOMAIN agents
                /\ agents[a].ws = ws
                /\ c \in Members(FIGMA_BRIDGE) \ {ws}
                /\ readyState[c] = "open"
             THEN 1 ELSE 0

\* C26 as stated: on close the cleanup is done once, and exactly one of the
\* registry path and the tag path releases the locks.
C26_AsStated ==
    [][CloseStep =>
         /\ ClosePath(last'.ws) \in {"registry", "tag"}
         /\ CleanedUp(last'.ws,
                      IF ClosePath(last'.ws) = "registry"
                      THEN {a \in DOMAIN agents : agents[a].ws = last'.ws}
                      ELSE {wsAgentId[last'.ws]})
      ]_vars

\* C26 amended: on close the cleanup is done once; at most one of the
\* registry path and the tag path releases locks: the registry path when
\* the connection owns an entry, else the tag path when it carries a tag,
\* and neither for a connection without entry and tag.
C26_CleanupOnce ==
    [][CloseStep =>
         CleanedUp(last'.ws,
                   IF ClosePath(last'.ws) = "registry"
                   THEN {a \in DOMAIN agents : agents[a].ws = last'.ws}
                   ELSE IF ClosePath(last'.ws) = "tag"
                   THEN {wsAgentId[last'.ws]}
                   ELSE {})
      ]_vars

\* A connection that owned a registry entry and held a node lock has
\* closed: the lock is free and the open member of the administrative
\* channel got one agent:disconnected.
C26_Witness ==
    /\ last.op = "close"
    /\ last.gone # {}
    /\ last.freed # {}
    /\ Len(sent) = 1
    /\ sent[1].msg.type = "agent:disconnected"
    /\ sent[1].msg.agentId \in last.gone

(* ---------------------------------------------------------------- C27 *)

\* The entry of agent a is gone after the step, a holds no lock, and every
\* open member of the administrative channel was sent agent:disconnected
\* for a.
Deregistered(a) ==
    /\ a \notin DOMAIN agents'
    /\ \A n \in DOMAIN nodeLocks' : nodeLocks'[n].agentId # a
    /\ docLock'.agentId # a
    /\ \A c \in Members(FIGMA_BRIDGE) \ {last'.ws} :
          readyState[c] = "open" =>
             \E i \in 1..Len(sent') :
                /\ sent'[i].to = c
                /\ sent'[i].msg = [type |-> "agent:disconnected", agentId |-> a]

\* C27 as stated: when a connection closes and its tagged agentId matches a
\* registry entry, the entry is deleted, the locks of that agentId are
\* released and agent:disconnected for it goes to the open members of
\* figma-bridge.
C27_AsStated ==
    [][(CloseStep /\ wsAgentId[last'.ws] \in DOMAIN agents) =>
         Deregistered(wsAgentId[last'.ws])]_vars

\* C27 amended: when a connection closes, every registry entry it owns is
\* deleted, the locks of that agentId are released and agent:disconnected
\* for it goes to the open members of figma-bridge; an entry owned by
\* another connection stays, also when its agentId is the closing
\* connection's tag.
C27_CloseDeregistersOwned ==
    [][CloseStep =>
         \A a \in DOMAIN agents :
            IF agents[a].ws = last'.ws
            THEN Deregistered(a)
            ELSE a \in DOMAIN agents' /\ agents'[a] = agents[a]
      ]_vars

\* A connection has closed whose tag was the agentId of an entry it owned
\* and that held a lock: entry and lock are gone and the administrative
\* channel was told.
C27_Witness ==
    /\ last.op = "close"
    /\ wsAgentId[last.ws] \in last.gone
    /\ last.freed # {}
    /\ \E i \in 1..Len(sent) :
          sent[i].msg = [type |-> "agent:disconnected",
                         agentId |-> wsAgentId[last.ws]]

(* ------------------------------------------- specification SpecRegister *)
(* Registrations and re-registrations with different channels and modes,   *)
(* complete or lacking a field, with members in the administrative channel.*)

RegisterChannels == {"agent-1", "agent-2", Undefined}

RegisterModes == {Undefined, "read-only"}

AllRegisterFrames ==
    {[type |-> "agent:register", agentId |-> a, channel |-> ch, mode |-> m] :
        a \in FieldAgents, ch \in RegisterChannels, m \in RegisterModes}

NextRegister ==
    \/ \E ws \in LockConns : Open(ws) /\ NoHistory
    \/ \E ws \in LockConns : Drop(ws) /\ NoHistory
    \/ \E ws \in LockConns : Close(ws) /\ NoHistory
    \/ \E ws \in LockConns, data \in JoinFrames({FIGMA_BRIDGE}) :
          Join(ws, data) /\ NoHistory
    \/ \E ws \in LockConns, data \in AllRegisterFrames :
          AgentRegister(ws, data) /\ NoHistory

SpecRegister == Init /\ [][NextRegister]_vars

(* ---------------------------------------------------------------- C28 *)

\* The step handles an agent:register frame, valid or not.
AnyRegisterStep == last'.op = "frame" /\ last'.data.type = "agent:register"

\* C28: the registry holds one entry per agentId, that of the most recent
\* valid registration: a valid agent:register stores its channel, its mode
\* (read-write when omitted) and its connection under its agentId and
\* leaves the other entries alone, and no other frame writes an entry; it
\* sends agent:registered to the registrant and to every open member of
\* the administrative channel; a registration lacking agentId or channel
\* changes nothing.
C28_LastWriteWins ==
    [][/\ RegisterStep =>
            LET data == last'.data
            IN /\ DOMAIN agents' = DOMAIN agents \cup {data.agentId}
               /\ agents'[data.agentId].agentId = data.agentId
               /\ agents'[data.agentId].channel = data.channel
               /\ agents'[data.agentId].mode =
                     (IF data.mode = Undefined THEN "read-write" ELSE data.mode)
               /\ agents'[data.agentId].ws = last'.ws
               /\ \A a \in DOMAIN agents \ {data.agentId} :
                     agents'[a] = agents[a]
               /\ sent'[1] = [to |-> last'.ws,
                              msg |-> [type |-> "agent:registered",
                                       agentId |-> data.agentId,
                                       channel |-> data.channel]]
               /\ \A c \in Conns :
                     Cardinality({i \in 2..Len(sent') :
                                     /\ sent'[i].to = c
                                     /\ sent'[i].msg.type = "agent:registered"
                                     /\ sent'[i].msg.agentId = data.agentId}) =
                        IF c \in Members(FIGMA_BRIDGE) /\ readyState[c] = "open"
                        THEN 1 ELSE 0
       /\ (AnyRegisterStep /\ ~RegisterStep) =>
            UNCHANGED <<agents, wsAgentId, channels, nodeLocks, docLock>>
       /\ \A a \in DOMAIN agents' :
            (a \notin DOMAIN agents \/ agents'[a] # agents[a])
               => RegisterStep /\ last'.data.agentId = a
       /\ \A a \in DOMAIN agents' : agents'[a].agentId = a
      ]_vars

\* An agentId registered before has just been registered again, by the
\* other connection, for another channel and read-only: the entry carries
\* the new registration, and the open member of the administrative channel
\* was told.
C28_Witness ==
    /\ LastFrame("agent:register")
    /\ last.data.agentId \in DOMAIN agents
    /\ agents[last.data.agentId].ws = last.ws
    /\ agents[last.data.agentId].channel = "agent-2"
    /\ agents[last.data.agentId].mode = "read-only"
    /\ agents[last.data.agentId].channel = last.data.channel
    /\ wsAgentId[CHOOSE c \in LockConns : c # last.ws] = last.data.agentId
    /\ Len(sent) = 2

(* ---------------------------------------------------------------- C29 *)

\* The step handles a directed frame that names a target channel.
DirectedStep ==
    /\ last'.op = "frame"
    /\ last'.data.type = "directed"
    /\ last'.data.targetChannel # Undefined

\* C29: a directed frame for channel T is forwarded once to every open
\* member of T, the sender included when it is a member, whether or not the
\* sender is in T or in any channel, and to nobody else; when T does not
\* exist or has no member nothing is sent; T is not created and no state
\* changes.
C29_DirectedDelivery ==
    [][DirectedStep =>
         LET T == last'.data.targetChannel
         IN /\ \A c \in Conns :
                 Cardinality(SentTo(c)) =
                    IF c \in Members(T) /\ readyState[c] = "open"
                    THEN 1 ELSE 0
            /\ \A i \in 1..Len(sent') :
                 /\ sent'[i].msg.type = "broadcast"
                 /\ sent'[i].msg.message = last'.data.message
                 /\ sent'[i].msg.channel = T
            /\ Members(T) = {} => sent' = << >>
            /\ UNCHANGED <<channels, agents, nodeLocks, docLock, readyState>>
      ]_vars

\* A connection that is in no channel has sent a directed frame, and the
\* two open members of the target channel got it.
C29_Witness ==
    /\ LastFrame("directed")
    /\ \A ch \in DOMAIN channels : last.ws \notin channels[ch]
    /\ Len(sent) = 2
    /\ \A i \in 1..2 : sent[i].to \in Members(last.data.targetChannel)

(* ---------------------------------------------------------------- C30 *)

\* The connection is a member of no channel.
Unjoined(ws) == \A ch \in DOMAIN channels : ws \notin channels[ch]

\* The step handles a frame other than join of a connection that has
\* joined no channel.
UnjoinedStep ==
    /\ last'.op = "frame"
    /\ last'.data.type # "join"
    /\ Unjoined(last'.ws)

\* The step changed neither registry nor locks and sent nothing to another
\* connection than the sender.
NotProcessed ==
    /\ UNCHANGED <<agents, nodeLocks, docLock>>
    /\ \A i \in 1..Len(sent') : sent'[i].to = last'.ws

\* C30 as stated: a frame other than join from a connection that has joined
\* no channel changes no registry or lock state and delivers nothing to any
\* other connection.
C30_AsStated == [][UnjoinedStep => NotProcessed]_vars

\* C30 amended: only message and progress_update are gated: from a
\* connection that has joined no channel they change no registry or lock
\* state and deliver nothing to any other connection; its agent:register,
\* directed and lock:acquire are processed all the same: a valid
\* registration is stored, a directed frame reaches the open members of
\* its target and a request for a free key is granted.
C30_OnlyRelayIsGated ==
    [][UnjoinedStep =>
         /\ last'.data.type \in {"message", "progress_update"} => NotProcessed
         /\ RegisterStep => last'.data.agentId \in DOMAIN agents'
         /\ DirectedStep =>
               \A c \in Members(last'.data.targetChannel) :
                  readyState[c] = "open" => SentTo(c) # {}
         /\ (/\ ValidAcquireStep
             /\ HeldKeys(nodeLocks, docLock) = {})
              => /\ sent'[1].msg.type = "lock:acquired"
                 /\ KeyOf(last'.data) \in HeldKeys(nodeLocks', docLock')
      ]_vars

\* A connection in no channel has sent a progress_update for a channel
\* with an open member, and nothing was sent.
C30_Witness ==
    /\ LastFrame("progress_update")
    /\ Unjoined(last.ws)
    /\ \E c \in Members(last.data.channel) : readyState[c] = "open"
    /\ sent = << >>

(* ---------------------------------------------------------------- C31 *)

\* The step handles a progress_update frame that names a channel.
ProgressStep ==
    /\ last'.op = "frame"
    /\ last'.data.type = "progress_update"
    /\ last'.data.channel # Undefined

\* C31: a progress_update for channel C from a member of C is relayed, with
\* its message, id and channel, once to every other open member of C and
\* not to the sender; from a connection that is not a member of C it
\* reaches nobody and the sender gets an error frame, as for a message
\* frame.
C31_ProgressNeedsMembership ==
    [][ProgressStep =>
         LET data == last'.data
             ws == last'.ws
         IN IF ws \in Members(data.channel)
            THEN /\ \A c \in Conns :
                      Cardinality(SentTo(c)) =
                         IF /\ c \in channels[data.channel]
                            /\ c # ws
                            /\ readyState[c] = "open"
                         THEN 1 ELSE 0
                 /\ \A i \in 1..Len(sent') :
                      /\ sent'[i].msg.type = "progress_update"
                      /\ sent'[i].msg.message = data.message
                      /\ sent'[i].msg.id = data.id
                      /\ sent'[i].msg.channel = data.channel
            ELSE /\ Len(sent') = 1
                 /\ sent'[1].to = ws
                 /\ sent'[1].msg.type = "error"
      ]_vars

(* ------------------------------------------------ specification SpecLive *)
(* The locks of SpecTime under a clock that keeps advancing and a sweep    *)
(* timer that keeps firing, up to the last modelled instant.               *)

\* heldSince after a step: a key that stays with the same agentId keeps the
\* time of its first grant, a newly held key gets the current time.
TrackHeldSince ==
    heldSince' =
      [k \in HeldKeys(nodeLocks', docLock') |->
         IF /\ k \in DOMAIN heldSince
            /\ k \in HeldKeys(nodeLocks, docLock)
            /\ EntryOf(nodeLocks, docLock, k).agentId
                  = EntryOf(nodeLocks', docLock', k).agentId
         THEN heldSince[k]
         ELSE now']

LiveHistory ==
    TrackHeldSince /\ NoGrantedOver /\ NoDocDenied /\ NoRegisteredBy /\ NoReplies

LiveTtls == {<< >>, <<ShortTtl>>}

LiveAcquireFrames ==
    {f \in AcquireFrames(LiveTtls) : f.agentId \in CloseAgents}

NextLive ==
    \/ \E ws \in RetryConns : Open(ws) /\ LiveHistory
    \/ \E ws \in RetryConns : Close(ws) /\ LiveHistory
    \/ \E ws \in RetryConns, data \in LiveAcquireFrames :
          LockAcquire(ws, data) /\ LiveHistory
    \/ \E ws \in RetryConns, data \in CloseReleaseFrames :
          LockRelease(ws, data) /\ LiveHistory
    \/ Sweep /\ LiveHistory
    \/ Tick /\ LiveHistory

\* setInterval keeps firing the sweep (socket.ts 497-509) and time passes.
SpecLive ==
    /\ Init
    /\ [][NextLive]_vars
    /\ WF_vars(Sweep /\ LiveHistory)
    /\ WF_vars(Tick /\ LiveHistory)

(* ---------------------------------------------------------------- C32 *)

\* The instants of the model's clock.
Instants == {t \in 0..MaxTime : t % SWEEP_INTERVAL_MS \in
                                  {0, SWEEP_INTERVAL_MS - ShortTtl}}

\* The lock entries whose TTL and one more sweep interval elapse before the
\* last modelled instant.
ReclaimableEntries ==
    {e \in [agentId : CloseAgents, acquiredAt : Instants,
            ttl : {ShortTtl, DEFAULT_LOCK_TTL_MS}] :
        e.acquiredAt + e.ttl + SWEEP_INTERVAL_MS <= MaxTime}

\* The key k is held under exactly the entry e.
HeldAs(k, e) ==
    k \in HeldKeys(nodeLocks, docLock) /\ EntryOf(nodeLocks, docLock, k) = e

\* C32: under a sweep timer that keeps firing, a held lock entry does not
\* stay for ever: it becomes free (by release, close or sweep) unless a
\* further lock:acquire of its holder for the same key replaces it, even
\* when the holder never releases and its connection never closes; a sweep
\* leaves in place every entry that is not older than its TTL, so a holder
\* that re-acquires before expiry keeps the lock.
C32_EventuallyReclaimed ==
    /\ \A k \in NodeIds \cup {DOC} : \A e \in ReclaimableEntries :
          []<>(~HeldAs(k, e))
    /\ [][\A k \in HeldKeys(nodeLocks, docLock) :
            LET e == EntryOf(nodeLocks, docLock, k)
            IN /\ (k \in HeldKeys(nodeLocks', docLock')
                   /\ EntryOf(nodeLocks', docLock', k) # e)
                    => /\ last'.op = "frame"
                       /\ last'.data.type = "lock:acquire"
                       /\ last'.data.agentId = e.agentId
                       /\ KeyOf(last'.data) = k
               /\ (SweepStep /\ now - e.acquiredAt <= e.ttl)
                    => /\ k \in HeldKeys(nodeLocks', docLock')
                       /\ EntryOf(nodeLocks', docLock', k) = e
         ]_vars

\* The sweep has just reclaimed a lock whose holder neither released it nor
\* closed its connection, and has left in place a lock of the same TTL that
\* its holder has kept for longer than TTL plus a sweep interval by
\* re-acquiring it.
C32_Witness ==
    /\ last.op = "sweep"
    /\ \E e \in last.expired :
          /\ e.lock.ttl = ShortTtl
          /\ \E c \in RetryConns :
                readyState[c] = "open" /\ wsAgentId[c] = e.lock.agentId
    /\ \E k \in HeldKeys(nodeLocks, docLock) :
          LET lock == EntryOf(nodeLocks, docLock, k)
          IN /\ lock.ttl = ShortTtl
             /\ now - heldSince[k] > lock.ttl + SWEEP_INTERVAL_MS

(* ---------------------------------------------------------------- C33 *)

\* The key k is held under an entry older than its TTL that no sweep has
\* removed yet.
Stale(k) ==
    /\ k \in HeldKeys(nodeLocks, docLock)
    /\ Expired(EntryOf(nodeLocks, docLock, k), now)

\* C33: the TTL is enforced by the sweep alone. A lock older than its TTL
\* that has not been swept yet still denies every other agent's
\* lock:acquire for its key with heldBy its holder and stays as it was, as
\* the doc lock it still denies their node requests as doc-locked, and
\* /status lists it; the sweep removes it at its next tick.
C33_StaleLockStillHeld ==
    [][/\ ValidAcquireStep =>
            LET data == last'.data
                k == KeyOf(data)
            IN /\ (Stale(k)
                   /\ EntryOf(nodeLocks, docLock, k).agentId # data.agentId)
                    => /\ sent'[1].msg.type = "lock:denied"
                       /\ sent'[1].msg.heldBy \in
                            {EntryOf(nodeLocks, docLock, k).agentId,
                             docLock.agentId}
                       /\ UNCHANGED <<nodeLocks, docLock>>
               /\ (Stale(DOC) /\ k # DOC /\ docLock.agentId # data.agentId)
                    => /\ sent'[1].msg.type = "lock:denied"
                       /\ sent'[1].msg.heldBy = docLock.agentId
                       /\ Field(sent'[1].msg, "reason") = "doc-locked"
                       /\ UNCHANGED <<nodeLocks, docLock>>
       /\ \A k \in HeldKeys(nodeLocks, docLock) :
            /\ k \in StatusLockKeys
            /\ (Stale(k) /\ SweepStep) => k \notin HeldKeys(nodeLocks', docLock')
            /\ (Stale(k) /\ last'.op = "tick")
                  => k \in HeldKeys(nodeLocks', docLock')
      ]_vars

\* A node request has just been denied as doc-locked under another agent's
\* doc lock that had outlived its TTL by more than the TTL itself; /status
\* lists that doc lock.
C33_Witness ==
    /\ LastFrame("lock:acquire")
    /\ last.data.lockType = "node"
    /\ Reply.type = "lock:denied"
    /\ Field(Reply, "reason") = "doc-locked"
    /\ Stale(DOC)
    /\ now - docLock.acquiredAt > 2 * docLock.ttl
    /\ Reply.heldBy = docLock.agentId
    /\ DOC \in StatusLockKeys

(* ---------------------------------------------------------------- C34 *)

\* The step handles a valid lock:acquire for a key whose current grant went
\* to a connection other than the one asking now.
OtherConnectionStep ==
    /\ ValidAcquireStep
    /\ KeyOf(last'.data) \in HeldKeys(nodeLocks, docLock)
    /\ KeyOf(last'.data) \in DOMAIN grantedOver
    /\ grantedOver[KeyOf(last'.data)] # last'.ws

OtherConnectionRelease ==
    /\ ReleaseStep
    /\ KeyOf(last'.data) \in HeldKeys(nodeLocks, docLock)
    /\ KeyOf(last'.data) \in DOMAIN grantedOver
    /\ grantedOver[KeyOf(last'.data)] # last'.ws

\* C35 as stated: a lock:release sent over a connection other than the one
\* that obtained the grant never frees the lock, even when it carries the
\* holder's agentId.
C35_AsStated ==
    [][OtherConnectionRelease =>
         KeyOf(last'.data) \in HeldKeys(nodeLocks', docLock')]_vars

\* C35 amended: only a lock:release that carries the holder's agentId frees
\* a lock, over whichever connection it arrives: a release sent over a
\* connection other than the one that obtained the grant frees the lock
\* exactly when it carries the holder's agentId, and leaves every other
\* lock as it was.
C35_ReleaseByAgentId ==
    [][OtherConnectionRelease =>
         LET data == last'.data
             k == KeyOf(data)
         IN /\ k \notin HeldKeys(nodeLocks', docLock')
                 <=> EntryOf(nodeLocks, docLock, k).agentId = data.agentId
            /\ \A j \in HeldKeys(nodeLocks, docLock) \ {k} :
                 /\ j \in HeldKeys(nodeLocks', docLock')
                 /\ EntryOf(nodeLocks', docLock', j)
                       = EntryOf(nodeLocks, docLock, j)
            /\ k \in HeldKeys(nodeLocks', docLock')
                 => EntryOf(nodeLocks', docLock', k)
                       = EntryOf(nodeLocks, docLock, k)
      ]_vars

\* A connection tagged with another agentId has just freed, with a release
\* carrying the holder's agentId, a lock granted over the other connection,
\* which is still open.
C35_Witness ==
    /\ LastFrame("lock:release")
    /\ last.over \in LockConns \ {last.ws}
    /\ readyState[last.over] = "open"
    /\ wsAgentId[last.over] = last.data.agentId
    /\ last.held = last.data.agentId
    /\ wsAgentId[last.ws] \notin {Undefined, last.data.agentId}
    /\ KeyOf(last.data) \notin HeldKeys(nodeLocks, docLock)

(* ---------------------------------------------------------------- C36 *)

\* The agentIds that are the closing connection's own: those registered
\* with it as owning connection or, when it owns no registry entry, its tag.
OwnIds(ws) ==
    LET owned == {a \in DOMAIN agents : agents[a].ws = ws}
    IN IF owned # {} THEN owned ELSE {wsAgentId[ws]} \ {Undefined}

\* C36: the close of connection c removes exactly the locks held under an
\* agentId registered with c as owning connection or, when c owns no
\* registry entry, under c's tag; every other lock stays as it was, and a
\* registry entry owned by another connection stays, even when its agentId
\* is c's tag.
C36_CloseReleasesOwnOnly ==
    [][CloseStep =>
         LET ws == last'.ws
         IN /\ HeldKeys(nodeLocks', docLock') =
                 {k \in HeldKeys(nodeLocks, docLock) :
                     EntryOf(nodeLocks, docLock, k).agentId \notin OwnIds(ws)}
            /\ \A k \in HeldKeys(nodeLocks', docLock') :
                 EntryOf(nodeLocks', docLock', k) = EntryOf(nodeLocks, docLock, k)
            /\ \A a \in DOMAIN agents :
                 agents[a].ws # ws
                    => a \in DOMAIN agents' /\ agents'[a] = agents[a]
      ]_vars

\* A connection has closed: the lock under its tag went, a lock under
\* another agentId stayed, and the registry entry of its tag, owned by the
\* other connection, which is open, stayed.
C36_Witness ==
    /\ last.op = "close"
    /\ last.freed # {}
    /\ HeldKeys(nodeLocks, docLock) # {}
    /\ wsAgentId[last.ws] \in DOMAIN agents
    /\ agents[wsAgentId[last.ws]].ws # last.ws
    /\ readyState[agents[wsAgentId[last.ws]].ws] = "open"
    /\ \A k \in HeldKeys(nodeLocks, docLock) :
          EntryOf(nodeLocks, docLock, k).agentId # wsAgentId[last.ws]

(* ---------------------------------------------------------------- C37 *)

\* C37: the doc lock does not override node locks. A node request of the
\* doc lock's holder for a node another agent holds is denied with heldBy
\* the node's holder and no doc-locked reason, and the locks stay as they
\* were; a doc request is granted whenever no other agent holds the doc
\* lock, whatever node locks other agents hold, and leaves them in place.
C37_DocHolderRespectsNodes ==
    [][ValidAcquireStep =>
         LET data == last'.data
         IN /\ (/\ data.lockType = "node"
                /\ docLock # NoLock
                /\ docLock.agentId = data.agentId
                /\ data.nodeId \in DOMAIN nodeLocks
                /\ nodeLocks[data.nodeId].agentId # data.agentId)
                 => /\ sent'[1].msg.type = "lock:denied"
                    /\ sent'[1].msg.heldBy = nodeLocks[data.nodeId].agentId
                    /\ Field(sent'[1].msg, "reason") = Undefined
                    /\ UNCHANGED <<nodeLocks, docLock>>
            /\ (/\ data.lockType = "doc"
                /\ (docLock = NoLock \/ docLock.agentId = data.agentId))
                 => /\ sent'[1].msg.type = "lock:acquired"
                    /\ docLock'.agentId = data.agentId
                    /\ UNCHANGED nodeLocks
      ]_vars

\* The holder of the doc lock, granted while another agent held the node,
\* has just been denied that node, which its holder keeps.
C37_Witness ==
    /\ LastFrame("lock:acquire")
    /\ last.data.lockType = "node"
    /\ docLock # NoLock
    /\ docLock.agentId = last.data.agentId
    /\ Reply.type = "lock:denied"
    /\ Field(Reply, "reason") = Undefined
    /\ last.data.nodeId \in DOMAIN nodeLocks
    /\ Reply.heldBy = nodeLocks[last.data.nodeId].agentId
    /\ Reply.heldBy # last.data.agentId

(* ------------------------------------------------- specification SpecTtl *)
(* Grants and refreshes with the ttl absent, zero and custom, under the    *)
(* clock and the sweep.                                                    *)

GrantTtls == {<< >>, <<0>>, <<ShortTtl>>, <<SWEEP_INTERVAL_MS>>}

GrantAcquireFrames ==
    {f \in AcquireFrames(GrantTtls) : f.agentId \in CloseAgents}

NextTtl ==
    \/ \E ws \in RetryConns : Open(ws) /\ NoHistory
    \/ \E ws \in RetryConns : Close(ws) /\ NoHistory
    \/ \E ws \in RetryConns, data \in GrantAcquireFrames :
          LockAcquire(ws, data) /\ NoHistory
    \/ Sweep /\ NoHistory
    \/ Tick /\ NoHistory

SpecTtl == Init /\ [][NextTtl]_vars

(* ---------------------------------------------------------------- C38 *)

\* C38: every granted lock:acquire, first grant or refresh, stores as the
\* entry's ttl the frame's ttl when that is a non-zero number and 60000 ms
\* when the frame has no ttl or ttl 0, whatever ttl the entry had before.
C38_PerGrantTtl ==
    [][(ValidAcquireStep /\ sent'[1].msg.type = "lock:acquired") =>
         LET data == last'.data
         IN EntryOf(nodeLocks', docLock', KeyOf(data)).ttl =
               IF data.ttl = << >> THEN DEFAULT_LOCK_TTL_MS
               ELSE IF data.ttl[1] = 0 THEN DEFAULT_LOCK_TTL_MS
               ELSE data.ttl[1]
      ]_vars

\* The holder of a lock granted earlier with a custom ttl has just
\* re-acquired it with a frame without ttl (or with ttl 0): the entry's ttl
\* is the default.
C38_Witness ==
    /\ LastFrame("lock:acquire")
    /\ Reply.type = "lock:acquired"
    /\ last.held = last.data.agentId
    /\ last.data.ttl \in {<< >>, <<0>>}
    /\ last.hadTtl = ShortTtl
    /\ now > 0
    /\ EntryOf(nodeLocks, docLock, KeyOf(last.data)).ttl = DEFAULT_LOCK_TTL_MS
    /\ EntryOf(nodeLocks, docLock, KeyOf(last.data)).acquiredAt = now

(* ----------------------------------------------- specification SpecIndep *)
(* Registration in either mode, locks and the four channel frames, between *)
(* two connections.                                                        *)

IndepChannels == {"agent-1"}

IndepModes == {"read-only", "read-write"}

IndepRegisterFrames ==
    {[type |-> "agent:register", agentId |-> a, channel |-> ch, mode |-> m] :
        a \in CloseAgents, ch \in IndepChannels, m \in IndepModes}

IndepProgressFrames == {f \in FieldProgressFrames : f.channel \in IndepChannels}

NextIndep ==
    \/ \E ws \in LockConns : Open(ws) /\ NoHistory
    \/ \E ws \in LockConns : Close(ws) /\ NoHistory
    \/ \E ws \in LockConns, data \in JoinFrames(IndepChannels) :
          Join(ws, data) /\ NoHistory
    \/ \E ws \in LockConns, data \in MessageFrames(IndepChannels, RoutePayloads) :
          Message(ws, data) /\ NoHistory
    \/ \E ws \in LockConns, data \in DirectedFrames(IndepChannels, RoutePayloads) :
          Directed(ws, data) /\ NoHistory
    \/ \E ws \in LockConns, data \in IndepProgressFrames :
          ProgressUpdate(ws, data) /\ NoHistory
    \/ \E ws \in LockConns, data \in IndepRegisterFrames :
          AgentRegister(ws, data) /\ NoHistory
    \/ \E ws \in LockConns, data \in CloseAcquireFrames :
          LockAcquire(ws, data) /\ NoHistory

SpecIndep == Init /\ [][NextIndep]_vars

(* ---------------------------------------------------------------- C39 *)

\* C39: the agent registry is independent of channel membership and of
\* lock arbitration. agent:register changes no channel's member set and
\* stores the entry and confirms whether or not the registrant has joined
\* the channel it names; join, message, directed and progress_update change
\* neither the registry nor any lock; and a lock:acquire is granted exactly
\* when its key is free or held under its own agentId and, for a node, no
\* other agent holds the doc lock, whatever mode its agent is registered
\* with, and leaves the registry as it was.
C39_RegistryIndependent ==
    [][last'.op = "frame" =>
         LET data == last'.data
             ws == last'.ws
         IN /\ data.type = "agent:register" =>
                 /\ channels' = channels
                 /\ UNCHANGED <<nodeLocks, docLock>>
                 /\ data.agentId \in DOMAIN agents'
                 /\ agents'[data.agentId].ws = ws
                 /\ agents'[data.agentId].channel = data.channel
                 /\ agents'[data.agentId].mode = data.mode
                 /\ sent'[1] = [to |-> ws,
                                msg |-> [type |-> "agent:registered",
                                         agentId |-> data.agentId,
                                         channel |-> data.channel]]
            /\ data.type \in {"join", "message", "directed", "progress_update"}
                 => UNCHANGED <<agents, nodeLocks, docLock>>
            /\ data.type = "lock:acquire" =>
                 LET k == KeyOf(data)
                     free == \/ k \notin HeldKeys(nodeLocks, docLock)
                             \/ EntryOf(nodeLocks, docLock, k).agentId
                                   = data.agentId
                     preempted == /\ k # DOC
                                  /\ docLock # NoLock
                                  /\ docLock.agentId # data.agentId
                 IN /\ sent'[1].msg.type =
                         IF free /\ ~preempted THEN "lock:acquired"
                         ELSE "lock:denied"
                    /\ agents' = agents
                    /\ channels' = channels
      ]_vars

\* An agent registered read-only, by a connection that has not joined the
\* channel the registration names, has just been granted the doc lock while
\* an agent registered read-write holds a node.
C39_Witness ==
    /\ LastFrame("lock:acquire")
    /\ last.data.lockType = "doc"
    /\ Reply.type = "lock:acquired"
    /\ last.data.agentId \in DOMAIN agents
    /\ agents[last.data.agentId].mode = "read-only"
    /\ agents[last.data.agentId].ws
          \notin Members(agents[last.data.agentId].channel)
    /\ \E n \in DOMAIN nodeLocks :
          /\ nodeLocks[n].agentId \in DOMAIN agents
          /\ agents[nodeLocks[n].agentId].mode = "read-write"

====
